---- MODULE Spec2Model ----
(***************************************************************************)
(* Model of the auth0/agent-skills evaluation runner (evals/run_eval.py)   *)
(* and its graders (evals/graders/*.py).                                   *)
(*                                                                         *)
(* Python values are represented as follows.                               *)
(*   - Optional[T]: the empty sequence << >> is None, << v >> is the value *)
(*     v (so None and the empty string "" are different values).           *)
(*   - text that the code only searches (file contents, agent output,      *)
(*     commands) is a set or sequence of tokens; a substring or regular    *)
(*     expression search is a search for the tokens it needs.              *)
(*   - an exception is the string str(e) it carries.                       *)
(***************************************************************************)
EXTENDS Integers, Sequences, FiniteSets, TLC

\* ------------------------------------------------------------------ bounds

\* Largest number of test cases in a dataset.
MaxCases == 2

\* ----------------------------------------------------------- Python values

None == << >>

Some(v) == << v >>

\* Python truthiness of an Optional[str]: None and "" are both falsy.
Truthy(opt) == opt # None /\ opt[1] # ""

\* Truthiness of an Optional[object]: any object is truthy.
Present(opt) == opt # None

\* A list as the set of its elements.
Range(s) == { s[k] : k \in 1..Len(s) }

\* ------------------------------------------------------------ GraderResult

\* graders/common.py GraderResult(name, passed, message, details).  message is
\* the text of the f-string with its interpolated values left out; details
\* lists the interpolated values and the values of the details dict.
GraderResult(name, passed, message, details) ==
    [name |-> name, passed |-> passed, message |-> message, details |-> details]

\* ---------------------------------------------------- project directories

\* A project directory: deps is None when package.json is missing or is not
\* valid JSON, else Some(set of the names under "dependencies"); files maps
\* every existing file to the set of tokens its text contains.
Project(deps, files) == [deps |-> deps, files |-> files]

\* The candidate entry files, in the order the checks try them.
entry_files == << "src/main.tsx", "src/index.tsx", "src/main.jsx", "src/index.jsx" >>

\* The order in which directory globbing lists the files of src/.
GlobOrder == << "src/App.tsx", "src/index.jsx", "src/Login.jsx", "src/main.tsx",
                "src/index.tsx", "src/main.jsx", "src/auth.ts" >>

TsxFiles == { "src/App.tsx", "src/main.tsx", "src/index.tsx" }

TsFiles == { "src/auth.ts" }

JsxFiles == { "src/index.jsx", "src/Login.jsx", "src/main.jsx" }

Exists(project, path) == path \in DOMAIN project.files

\* common.py read_file: None when the file does not exist.
read_file(project, path) ==
    IF Exists(project, path) THEN Some(project.files[path]) ELSE None

\* Tokens standing for references to environment variables, with the
\* variable name that re.findall extracts from each.
ViteRefs == { "import.meta.env.VITE_AUTH0_DOMAIN", "import.meta.env.REACT_APP_AUTH0_DOMAIN" }

CraRefs == { "process.env.REACT_APP_AUTH0_DOMAIN", "process.env.VITE_AUTH0_DOMAIN" }

EnvVarName(ref) ==
    CASE ref = "import.meta.env.VITE_AUTH0_DOMAIN" -> "VITE_AUTH0_DOMAIN"
      [] ref = "import.meta.env.REACT_APP_AUTH0_DOMAIN" -> "REACT_APP_AUTH0_DOMAIN"
      [] ref = "process.env.REACT_APP_AUTH0_DOMAIN" -> "REACT_APP_AUTH0_DOMAIN"
      [] ref = "process.env.VITE_AUTH0_DOMAIN" -> "VITE_AUTH0_DOMAIN"

StartsWith(var, prefix) ==
    \/ prefix = "VITE_" /\ var = "VITE_AUTH0_DOMAIN"
    \/ prefix = "REACT_APP_" /\ var = "REACT_APP_AUTH0_DOMAIN"

\* Substring search in a file's text: a token is found as itself, and the
\* tokens that stand for a longer text contain the substrings of that text.
TextContains(content, s) ==
    \/ s \in content
    \/ s = "VITE_AUTH0" /\ content \cap { "import.meta.env.VITE_AUTH0_DOMAIN", "process.env.VITE_AUTH0_DOMAIN" } # {}
    \/ s = "REACT_APP_AUTH0" /\ content \cap { "import.meta.env.REACT_APP_AUTH0_DOMAIN", "process.env.REACT_APP_AUTH0_DOMAIN" } # {}
    \/ s = "import.meta.env.VITE_" /\ "import.meta.env.VITE_AUTH0_DOMAIN" \in content
    \/ s = "import.meta.env.REACT_APP_" /\ "import.meta.env.REACT_APP_AUTH0_DOMAIN" \in content
    \/ s = "AUTH0_DOMAIN" /\ content \cap (ViteRefs \cup CraRefs) # {}
    \/ s = "redirect_uri" /\ "redirect_uri: 'http" \in content
    \/ s = "useAuth0" /\ "const { user } = useAuth0()" \in content

\* common.py check_file_contains (substring search).
check_file_contains(project, path, pattern) ==
    LET content == read_file(project, path)
    IN  IF content = None THEN FALSE ELSE TextContains(content[1], pattern)

\* common.py find_files(project_dir / "src", glob) for the files whose
\* extension is in exts, in directory order.
find_files(project, exts) ==
    SelectSeq(GlobOrder, LAMBDA p : p \in exts /\ Exists(project, p))

\* common.py check_package_dependency (dev = False).
check_package_dependency(project, package_name) ==
    IF project.deps = None THEN FALSE ELSE package_name \in project.deps[1]

\* The first element of s that satisfies Test, as an Optional.
FirstSuch(s, Test(_)) ==
    LET hits == SelectSeq(s, Test)
    IN  IF hits = << >> THEN None ELSE Some(hits[1])

\* common.py extract_env_vars_from_file: the import.meta.env names, then the
\* process.env names.
extract_env_vars_from_file(project, path) ==
    LET content == read_file(project, path)
        vite == IF content = None THEN {} ELSE content[1] \cap ViteRefs
        cra == IF content = None THEN {} ELSE content[1] \cap CraRefs
        AsSeq(refs) ==
            SelectSeq(<< "import.meta.env.VITE_AUTH0_DOMAIN", "import.meta.env.REACT_APP_AUTH0_DOMAIN",
                         "process.env.REACT_APP_AUTH0_DOMAIN", "process.env.VITE_AUTH0_DOMAIN" >>,
                      LAMBDA r : r \in refs)
    IN  [k \in 1..(Cardinality(vite) + Cardinality(cra)) |->
            EnvVarName((AsSeq(vite) \o AsSeq(cra))[k])]

\* Tokens standing for a text that one of the secret patterns matches.
SecretTokens == { "clientSecret: 'abc'", "domain: 'x.auth0.com'" }

\* common.py check_no_secrets_in_source: the .tsx then the .ts files of src/
\* whose text matches a secret pattern.
check_no_secrets_in_source(project) ==
    SelectSeq(find_files(project, TsxFiles) \o find_files(project, TsFiles),
              LAMBDA p : project.files[p] \cap SecretTokens # {})

\* --------------------------------------------------------- Auth0ReactGrader

check_sdk_installed(project) ==
    LET passed == check_package_dependency(project, "@auth0/auth0-react")
    IN  GraderResult("sdk_installed", passed,
            IF passed THEN "@auth0/auth0-react found in dependencies"
            ELSE "@auth0/auth0-react not found in package.json dependencies",
            << >>)

check_provider_wrapped(project) ==
    LET Wrapped(f) ==
            /\ check_file_contains(project, f, "Auth0Provider")
            /\ \/ check_file_contains(project, f, "from '@auth0/auth0-react'")
               \/ check_file_contains(project, f, "from dq@auth0/auth0-reactdq")
        hit == FirstSuch(entry_files, Wrapped)
    IN  IF hit # None
        THEN GraderResult("provider_wrapped", TRUE, "Auth0Provider found wrapping app in {entry_file}", hit)
        ELSE GraderResult("provider_wrapped", FALSE, "Auth0Provider not found wrapping the application", << >>)

check_env_vars_correct(project) ==
    LET files == find_files(project, TsxFiles) \o find_files(project, TsFiles)
        uses_vite == Exists(project, "vite.config.ts") \/ Exists(project, "vite.config.js")
        expected_prefix == IF uses_vite THEN "VITE_" ELSE "REACT_APP_"
        wrong_prefix == IF uses_vite THEN "REACT_APP_" ELSE "VITE_"
        WrongVar(f) == FirstSuch(extract_env_vars_from_file(project, f),
                                 LAMBDA v : StartsWith(v, wrong_prefix))
        wrong_file == FirstSuch(files, LAMBDA f : WrongVar(f) # None)
        auth0_vars_found ==
            \E k \in 1..Len(files) :
                \/ TextContains(project.files[files[k]],
                                IF uses_vite THEN "VITE_AUTH0" ELSE "REACT_APP_AUTH0")
                \/ TextContains(project.files[files[k]],
                                IF uses_vite THEN "import.meta.env.VITE_" ELSE "import.meta.env.REACT_APP_")
        unprefixed ==
            \E k \in 1..Len(files) :
                \/ TextContains(project.files[files[k]], "AUTH0_DOMAIN")
                \/ TextContains(project.files[files[k]], "AUTH0_CLIENT_ID")
    IN  IF wrong_file # None
        THEN GraderResult("env_vars_correct", FALSE, "Wrong env var prefix: {var} (should use {expected_prefix})",
                          << wrong_file[1], WrongVar(wrong_file[1])[1], expected_prefix >>)
        ELSE IF ~auth0_vars_found /\ unprefixed
        THEN GraderResult("env_vars_correct", FALSE, "Auth0 env vars found but without {expected_prefix} prefix",
                          << expected_prefix >>)
        ELSE GraderResult("env_vars_correct", TRUE, "Environment variables correctly use {expected_prefix} prefix",
                          << expected_prefix >>)

check_no_hardcoded_credentials(project) ==
    LET files_with_secrets == check_no_secrets_in_source(project)
        passed == Len(files_with_secrets) = 0
    IN  GraderResult("no_hardcoded_credentials", passed,
            IF passed THEN "No hardcoded credentials found"
            ELSE "Potential hardcoded credentials in: {files}",
            files_with_secrets)

\* The entry files are tried in order; a file that mentions redirect_uri
\* without either pattern decides nothing and the next file is tried.
check_redirect_uri_configured(project) ==
    LET Mentions(f) == check_file_contains(project, f, "redirect_uri")
        Good(f) == Mentions(f) /\ check_file_contains(project, f, "window.location.origin")
        Bad(f) == Mentions(f) /\ ~Good(f) /\ check_file_contains(project, f, "redirect_uri: 'http")
        hit == FirstSuch(entry_files, LAMBDA f : Good(f) \/ Bad(f))
    IN  IF hit = None
        THEN GraderResult("redirect_uri_configured", FALSE, "redirect_uri configuration not found", << >>)
        ELSE IF Good(hit[1])
        THEN GraderResult("redirect_uri_configured", TRUE, "redirect_uri correctly uses window.location.origin", hit)
        ELSE GraderResult("redirect_uri_configured", FALSE,
                          "redirect_uri has hardcoded URL instead of window.location.origin", hit)

check_login_component(project) ==
    LET hit == FirstSuch(find_files(project, TsxFiles) \o find_files(project, JsxFiles),
                         LAMBDA f : check_file_contains(project, f, "loginWithRedirect"))
    IN  IF hit # None
        THEN GraderResult("login_component", TRUE, "Login functionality found using loginWithRedirect", hit)
        ELSE GraderResult("login_component", FALSE, "No login component using loginWithRedirect found", << >>)

check_logout_component(project) ==
    LET hit == FirstSuch(find_files(project, TsxFiles) \o find_files(project, JsxFiles),
                         LAMBDA f : /\ check_file_contains(project, f, "logout(")
                                    /\ check_file_contains(project, f, "useAuth0"))
    IN  IF hit # None
        THEN GraderResult("logout_component", TRUE, "Logout functionality found", hit)
        ELSE GraderResult("logout_component", FALSE, "No logout component found", << >>)

check_useauth0_hook_usage(project) ==
    LET hit == FirstSuch(find_files(project, TsxFiles) \o find_files(project, JsxFiles),
                         LAMBDA f : /\ check_file_contains(project, f, "useAuth0")
                                    /\ check_file_contains(project, f, "const { user } = useAuth0()"))
    IN  IF hit # None
        THEN GraderResult("useauth0_hook_usage", TRUE, "useAuth0 hook correctly used with destructuring", hit)
        ELSE GraderResult("useauth0_hook_usage", FALSE, "useAuth0 hook not found or not properly used", << >>)

\* Auth0ReactGrader.run_all
ReactRunAll(project) ==
    << check_sdk_installed(project),
       check_provider_wrapped(project),
       check_env_vars_correct(project),
       check_no_hardcoded_credentials(project),
       check_redirect_uri_configured(project),
       check_login_component(project),
       check_logout_component(project),
       check_useauth0_hook_usage(project) >>

\* ------------------------------------------------ ExecutionTrace, commands

\* The text of a command is a sequence of tokens: words, separated by the
\* whitespace tokens " " (one space) and "\t" (any other run of whitespace).
WS == { " ", "\t" }

\* str.lower() of a token (re.IGNORECASE compares the lowered texts).
Lower(tok) ==
    CASE tok = "AUTH0" -> "auth0"
      [] tok = "React" -> "react"
      [] tok = "Detected" -> "detected"
      [] tok = "SPA" -> "spa"
      [] OTHER -> tok

\* Whether the text of token tok contains the string s.
TokHas(tok, s) ==
    \/ tok = s
    \/ tok = "next.config.js" /\ s \in { "next", "next.config" }
    \/ tok = "angular.json" /\ s = "angular"
    \/ tok = "vue.config.js" /\ s \in { "vue", "vue.config" }
    \/ tok = "@auth0/auth0-react" /\ s \in { "auth0", "react" }
    \/ tok = "'created_by=agent_skills'" /\ s = "created_by=agent_skills"
    \/ tok = "--callbacks=url" /\ s = "--callbacks"
    \/ tok = "--logout-urls=url" /\ s = "--logout-urls"

\* One element of a pattern against one token: "\\s+" is a run of
\* whitespace, "q?word" is word with an optional quote on either side, any
\* other element is the literal text of a token.
TokMatch(tok, pat) ==
    CASE pat = "\\s+" -> tok \in WS
      [] pat = "q?created_by=agent_skills" -> TokHas(tok, "created_by=agent_skills")
      [] OTHER -> tok = pat

\* The pattern pat (a sequence of elements) matches the tokens of text that
\* start at position i.
MatchAt(text, i, pat) ==
    /\ i + Len(pat) - 1 <= Len(text)
    /\ \A j \in 1..Len(pat) : TokMatch(text[i + j - 1], pat[j])

\* re.search(pat, text) / "pat in text" for a pattern that is a sequence of
\* whole tokens.
Search(text, pat) == \E i \in 1..Len(text) : MatchAt(text, i, pat)

\* The same with re.IGNORECASE.
SearchI(text, pat) == Search([k \in 1..Len(text) |-> Lower(text[k])], pat)

\* re.search("a.*b", text, re.IGNORECASE): a, then b anywhere after it.
SearchThenI(text, a, b) ==
    \E i \in 1..Len(text) :
        /\ MatchAt([k \in 1..Len(text) |-> Lower(text[k])], i, a)
        /\ \E j \in (i + Len(a))..Len(text) : TokHas(Lower(text[j]), b)

\* s in text, for a string s that lies within one token.
HasWord(text, s) == \E i \in 1..Len(text) : TokHas(text[i], s)

\* A trace command is a dict {"command": text} or, when the trace was built
\* from an AgentOutput, a plain str; cmd.get("command", "") raises
\* AttributeError on a str.
DictCommand(text) == [type |-> "dict", text |-> text]

StrCommand(text) == [type |-> "str", text |-> text]

\* ExecutionTrace.from_dict
ExecutionTrace(commands, files_modified, files_created, env_vars_set, outputs) ==
    [commands |-> commands, files_modified |-> files_modified,
     files_created |-> files_created, env_vars_set |-> env_vars_set, outputs |-> outputs]

\* The trace run_graders builds when it is given none.
EmptyTrace == ExecutionTrace(<< >>, << >>, << >>, {}, << >>)

AttributeError == "'str' object has no attribute 'get'"

\* The outcome of a check: it returns a GraderResult or raises.
Returned(r) == [raised |-> FALSE, value |-> r]

Raised(e) == [raised |-> TRUE, value |-> e]

\* for cmd in commands: cmd_str = cmd.get("command", ""); if Hit(cmd_str):
\* return ...  The index of the command that ends the loop, 0 when the loop
\* runs to its end, -1 when cmd.get raises first.
LoopEnd(commands, Hit(_)) ==
    LET stop == { k \in 1..Len(commands) :
                    commands[k].type = "str" \/ Hit(commands[k].text) }
        first == CHOOSE k \in stop : \A m \in stop : k <= m
    IN  IF stop = {} THEN 0
        ELSE IF commands[first].type = "str" THEN -1
        ELSE first

\* ----------------------------------------------------- Auth0QuickstartGrader

IsDetection(cmd_str) ==
    \/ SearchI(cmd_str, << "cat", "\\s+", "package.json" >>)
    \/ SearchThenI(cmd_str, << "grep" >>, "react")
    \/ \E fw \in { "next", "vue", "angular", "express" } : HasWord([k \in 1..Len(cmd_str) |-> Lower(cmd_str[k])], fw)
    \/ SearchThenI(cmd_str, << "ls" >>, "angular.json")
    \/ \E c \in { "vue.config", "next.config" } : HasWord([k \in 1..Len(cmd_str) |-> Lower(cmd_str[k])], c)

framework_mentions == << "react", "next", "vue", "angular", "express" >>

check_framework_detected(trace) ==
    LET k == LoopEnd(trace.commands, IsDetection)
        Mentioned(output, fw) ==
            /\ HasWord([n \in 1..Len(output) |-> Lower(output[n])], fw)
            /\ HasWord([n \in 1..Len(output) |-> Lower(output[n])], "detected")
        out == FirstSuch(trace.outputs, LAMBDA o : \E n \in 1..Len(framework_mentions) : Mentioned(o, framework_mentions[n]))
    IN  IF k = -1 THEN Raised(AttributeError)
        ELSE IF k > 0
        THEN Returned(GraderResult("framework_detected", TRUE, "Framework detection step performed",
                                   trace.commands[k].text))
        ELSE IF out # None
        THEN Returned(GraderResult("framework_detected", TRUE, "Framework {fw} detected in output",
                                   << FirstSuch(framework_mentions, LAMBDA fw : Mentioned(out[1], fw))[1] >>))
        ELSE Returned(GraderResult("framework_detected", FALSE, "No framework detection step found in trace", << >>))

IsInstall(cmd_str) ==
    \/ SearchThenI(cmd_str, << "brew", "\\s+", "install" >>, "auth0")
    \/ SearchI(cmd_str, << "scoop", "\\s+", "install", "\\s+", "auth0" >>)
    \/ SearchI(cmd_str, << "choco", "\\s+", "install", "\\s+", "auth0" >>)
    \/ SearchI(cmd_str, << "auth0", "\\s+", "--version" >>)
    \/ SearchI(cmd_str, << "which", "\\s+", "auth0" >>)
    \/ SearchI(cmd_str, << "command", "\\s+", "-v", "\\s+", "auth0" >>)

check_cli_installed(trace) ==
    LET k == LoopEnd(trace.commands, IsInstall)
    IN  IF k = -1 THEN Raised(AttributeError)
        ELSE IF k > 0
        THEN Returned(GraderResult("cli_installed", TRUE, "Auth0 CLI installation/verification found",
                                   trace.commands[k].text))
        ELSE Returned(GraderResult("cli_installed", FALSE, "No Auth0 CLI installation or verification found", << >>))

check_cli_logged_in(trace) ==
    LET k == LoopEnd(trace.commands, LAMBDA c : Search(c, << "auth0", "\\s+", "login" >>))
    IN  IF k = -1 THEN Raised(AttributeError)
        ELSE IF k > 0
        THEN Returned(GraderResult("cli_logged_in", TRUE, "auth0 login command executed", trace.commands[k].text))
        ELSE Returned(GraderResult("cli_logged_in", FALSE, "auth0 login command not found in trace", << >>))

\* re.search(r"auth0\s+apps\s+create", cmd_str)
IsCreateRe(cmd_str) == Search(cmd_str, << "auth0", "\\s+", "apps", "\\s+", "create" >>)

\* "auth0 apps create" in cmd_str
IsCreateLiteral(cmd_str) == Search(cmd_str, << "auth0", " ", "apps", " ", "create" >>)

check_app_created(trace) ==
    LET k == LoopEnd(trace.commands, IsCreateRe)
    IN  IF k = -1 THEN Raised(AttributeError)
        ELSE IF k > 0
        THEN Returned(GraderResult("app_created", TRUE, "auth0 apps create command executed", trace.commands[k].text))
        ELSE Returned(GraderResult("app_created", FALSE, "auth0 apps create command not found in trace", << >>))

\* The mutant of check_metadata_present used by the check of the claim about
\* the order of the commands: any creation command with the metadata passes.
check_metadata_of_any_create(trace) ==
    LET k == LoopEnd(trace.commands,
                     LAMBDA c : /\ IsCreateLiteral(c)
                                /\ Search(c, << "--metadata", "\\s+", "q?created_by=agent_skills" >>))
        first == LoopEnd(trace.commands, IsCreateLiteral)
    IN  IF k = -1 THEN Raised(AttributeError)
        ELSE IF k > 0
        THEN Returned(GraderResult("metadata_present", TRUE, "Instrumentation metadata present in create command",
                                   trace.commands[k].text))
        ELSE IF first = 0
        THEN Returned(GraderResult("metadata_present", FALSE, "auth0 apps create command not found", << >>))
        ELSE Returned(GraderResult("metadata_present", FALSE,
                                   "auth0 apps create found but missing --metadata 'created_by=agent_skills'",
                                   trace.commands[first].text))

check_metadata_present(trace) ==
    LET k == LoopEnd(trace.commands, IsCreateLiteral)
    IN  IF k = -1 THEN Raised(AttributeError)
        ELSE IF k = 0
        THEN Returned(GraderResult("metadata_present", FALSE, "auth0 apps create command not found", << >>))
        ELSE IF Search(trace.commands[k].text, << "--metadata", "\\s+", "q?created_by=agent_skills" >>)
        THEN Returned(GraderResult("metadata_present", TRUE, "Instrumentation metadata present in create command",
                                   trace.commands[k].text))
        ELSE Returned(GraderResult("metadata_present", FALSE,
                                   "auth0 apps create found but missing --metadata 'created_by=agent_skills'",
                                   trace.commands[k].text))

\* The leading run of word characters of a token (None when it starts with
\* another character): what (\w+) captures at the start of the token.
WordPrefix(tok) ==
    CASE tok \in { "spa", "SPA", "native", "regular", "react", "create", "apps", "auth0", "AUTH0", "login", "url" } -> Some(tok)
      [] tok = "next.config.js" -> Some("next")
      [] OTHER -> None

\* re.search(r"--type\s+(\w+)", cmd_str): the captured group of the first
\* match, lowered; None when there is no match.
TypeMatch(cmd_str) ==
    LET at == { i \in 1..(Len(cmd_str) - 2) :
                  /\ cmd_str[i] = "--type"
                  /\ cmd_str[i + 1] \in WS
                  /\ WordPrefix(cmd_str[i + 2]) # None }
        first == CHOOSE i \in at : \A m \in at : i <= m
    IN  IF at = {} THEN None ELSE Some(Lower(WordPrefix(cmd_str[first + 2])[1]))

\* type_map.get("spa")
expected_values == { "spa", "single page application" }

\* The mutant of check_app_type_correct used by the check of the claim about
\* the application type: --type is read from any command of the trace.
check_app_type_of_any_command(trace) ==
    LET k == LoopEnd(trace.commands, LAMBDA c : TypeMatch(c) # None)
        actual_type == TypeMatch(trace.commands[k].text)[1]
    IN  IF k = -1 THEN Raised(AttributeError)
        ELSE IF k = 0
        THEN Returned(GraderResult("app_type_correct", FALSE, "Application type not specified in create command", << >>))
        ELSE IF actual_type \in expected_values
        THEN Returned(GraderResult("app_type_correct", TRUE, "Correct application type: {actual_type}",
                                   << "spa", actual_type >>))
        ELSE Returned(GraderResult("app_type_correct", FALSE, "Wrong application type: {actual_type} (expected {expected_type})",
                                   << "spa", actual_type >>))

\* A creation command without --type decides nothing: the next command is
\* tried.
check_app_type_correct(trace) ==
    LET k == LoopEnd(trace.commands, LAMBDA c : IsCreateLiteral(c) /\ TypeMatch(c) # None)
        actual_type == TypeMatch(trace.commands[k].text)[1]
    IN  IF k = -1 THEN Raised(AttributeError)
        ELSE IF k = 0
        THEN Returned(GraderResult("app_type_correct", FALSE, "Application type not specified in create command", << >>))
        ELSE IF actual_type \in expected_values
        THEN Returned(GraderResult("app_type_correct", TRUE, "Correct application type: {actual_type}",
                                   << "spa", actual_type >>))
        ELSE Returned(GraderResult("app_type_correct", FALSE, "Wrong application type: {actual_type} (expected {expected_type})",
                                   << "spa", actual_type >>))

check_callbacks_configured(trace) ==
    LET k == LoopEnd(trace.commands, IsCreateLiteral)
        has_callbacks == HasWord(trace.commands[k].text, "--callbacks")
        has_logout == HasWord(trace.commands[k].text, "--logout-urls")
    IN  IF k = -1 THEN Raised(AttributeError)
        ELSE IF k = 0
        THEN Returned(GraderResult("callbacks_configured", FALSE, "auth0 apps create command not found", << >>))
        ELSE IF has_callbacks /\ has_logout
        THEN Returned(GraderResult("callbacks_configured", TRUE, "Callback and logout URLs configured",
                                   trace.commands[k].text))
        ELSE IF has_callbacks
        THEN Returned(GraderResult("callbacks_configured", FALSE, "Callback URLs configured but logout URLs missing", << >>))
        ELSE Returned(GraderResult("callbacks_configured", FALSE, "Callback URLs not configured", << >>))

\* Names of environment variables whose upper-cased name contains AUTH0,
\* DOMAIN or CLIENT.
Auth0EnvNames == { "AUTH0_DOMAIN", "AUTH0_CLIENT_ID", "VITE_AUTH0_DOMAIN", "client_id" }

RECURSIVE Flatten(_)
Flatten(texts) ==
    IF texts = << >> THEN << >> ELSE Head(texts) \o << ";" >> \o Flatten(Tail(texts))

check_credentials_captured(trace) ==
    LET IsShow(c) == \/ Search(c, << "auth0", "\\s+", "apps", "\\s+", "show" >>)
                     \/ Search(c, << "auth0", "\\s+", "apps", "\\s+", "list" >>)
        idx == SelectSeq([k \in 1..Len(trace.commands) |-> k], LAMBDA k : IsShow(trace.commands[k].text))
        show_commands == [n \in 1..Len(idx) |-> trace.commands[idx[n]].text]
        env_order == << "AUTH0_DOMAIN", "AUTH0_CLIENT_ID", "VITE_AUTH0_DOMAIN", "client_id" >>
        auth0_env_vars == SelectSeq(env_order, LAMBDA v : v \in trace.env_vars_set /\ v \in Auth0EnvNames)
    IN  IF \E k \in 1..Len(trace.commands) : trace.commands[k].type = "str"
        THEN Raised(AttributeError)
        ELSE IF show_commands # << >>
        THEN Returned(GraderResult("credentials_captured", TRUE, "Credentials retrieval commands found",
                                   Flatten(show_commands)))
        ELSE IF auth0_env_vars # << >>
        THEN Returned(GraderResult("credentials_captured", TRUE, "Auth0 credentials set as environment variables",
                                   auth0_env_vars))
        ELSE Returned(GraderResult("credentials_captured", FALSE, "No credentials retrieval or storage found", << >>))

\* Auth0QuickstartGrader.run_all: the list of the eight results, or the
\* first exception a check raises.
QuickstartRunAll(trace) ==
    LET outcomes == << check_framework_detected(trace), check_cli_installed(trace),
                       check_cli_logged_in(trace), check_app_created(trace),
                       check_metadata_present(trace), check_app_type_correct(trace),
                       check_callbacks_configured(trace), check_credentials_captured(trace) >>
        bad == { n \in 1..8 : outcomes[n].raised }
    IN  IF bad # {}
        THEN Raised(outcomes[CHOOSE n \in bad : \A m \in bad : n <= m].value)
        ELSE Returned([n \in 1..8 |-> outcomes[n].value])

\* ------------------------------------------------- run_eval.py data classes

TestCase(id, scaffold, expected_checks, should_trigger) ==
    [id |-> id, scaffold |-> scaffold, expected_checks |-> expected_checks,
     should_trigger |-> should_trigger]

\* AgentOutput without its wall-clock duration.  files_created is the list
\* made from a set difference, kept as a set.
AgentOutput(raw_output, exit_code, files_modified, files_created, commands_executed) ==
    [raw_output |-> raw_output, exit_code |-> exit_code, files_modified |-> files_modified,
     files_created |-> files_created, commands_executed |-> commands_executed]

\* weighted_score is kept in hundredths (3.0 is 300).
RubricScore(security_practices, user_consent, framework_alignment, instruction_following, overall_notes, weighted_score) ==
    [security_practices |-> security_practices, user_consent |-> user_consent,
     framework_alignment |-> framework_alignment, instruction_following |-> instruction_following,
     overall_notes |-> overall_notes, weighted_score |-> weighted_score]

\* EvalResult without its wall-clock duration; agent_output, rubric_score and
\* error are Optionals.
EvalResult(test_case, grader_results, agent_output, rubric_score, error) ==
    [test_case |-> test_case, grader_results |-> grader_results, agent_output |-> agent_output,
     rubric_score |-> rubric_score, error |-> error]

\* The mutant of passed used by the checks of the claims about expected
\* checks: every check of the list has to pass, expected or not.
passed_all_checks(result) ==
    IF Truthy(result.error) THEN FALSE
    ELSE IF ~result.test_case.should_trigger THEN TRUE
    ELSE \A k \in 1..Len(result.grader_results) : result.grader_results[k].passed

\* The mutant of passed used by the check of the claim about negative cases:
\* should_trigger is not looked at.
passed_ignores_should_trigger(result) ==
    IF Truthy(result.error) THEN FALSE
    ELSE ~ \E k \in 1..Len(result.grader_results) :
            /\ result.grader_results[k].name \in result.test_case.expected_checks
            /\ ~result.grader_results[k].passed

\* EvalResult.passed
passed(result) ==
    IF Truthy(result.error) THEN FALSE
    ELSE IF ~result.test_case.should_trigger THEN TRUE
    ELSE ~ \E k \in 1..Len(result.grader_results) :
            /\ result.grader_results[k].name \in result.test_case.expected_checks
            /\ ~result.grader_results[k].passed

\* The mutant of score used by the check of the claim about the score:
\* only the expected checks are counted.
score_of_expected_checks(result) ==
    LET expected == { k \in 1..Len(result.grader_results) :
                        result.grader_results[k].name \in result.test_case.expected_checks }
    IN  IF expected = {} THEN << 0, 1 >>
        ELSE << Cardinality({ k \in expected : result.grader_results[k].passed }),
                Cardinality(expected) >>

\* EvalResult.score as the fraction << numerator, denominator >>; 0.0 is
\* << 0, 1 >>.
score(result) ==
    IF result.grader_results = << >> THEN << 0, 1 >>
    ELSE << Cardinality({ k \in 1..Len(result.grader_results) : result.grader_results[k].passed }),
            Len(result.grader_results) >>

\* ------------------------------------------------------------- AgentRunner

\* One line of the agent's stdout: marker is the text a command pattern
\* needs before the command ("Running: ", "$ ", "Executing: "), or "" for a
\* line that shows no command; text is the rest of the line.
Line(marker, text) == [marker |-> marker, text |-> text]

\* re.findall(pattern, output) for the pattern that starts with marker: the
\* rest of every line that has the marker and at least one character more.
FindAll(marker, output) ==
    LET hits == SelectSeq(output, LAMBDA l : l.marker = marker /\ l.text # << >>)
    IN  [k \in 1..Len(hits) |-> hits[k].text]

\* AgentRunner._extract_commands: the matches of each pattern in turn.
_extract_commands(output) ==
    FindAll("Running: ", output) \o FindAll("$ ", output) \o FindAll("Executing: ", output)

\* The text of the lines as one sequence of tokens.
RECURSIVE JoinLines(_)
JoinLines(output) ==
    IF output = << >> THEN << >>
    ELSE (IF Head(output).marker = "" THEN << >> ELSE << Head(output).marker >>)
         \o Head(output).text \o << "\n" >> \o JoinLines(Tail(output))

\* AgentRunner._get_modified_files
_get_modified_files(files) == << >>

\* AgentRunner._list_files: the files of the directory.
_list_files(project) == DOMAIN project.files

\* What the subprocess call can do: raise TimeoutExpired, raise
\* FileNotFoundError, or complete with stdout, stderr, a return code and
\* the project directory as the agent left it.
Completed(stdout, stderr, returncode, after) ==
    [kind |-> "completed", stdout |-> stdout, stderr |-> stderr, returncode |-> returncode, after |-> after]

TimeoutExpired(after) == [kind |-> "TimeoutExpired", after |-> after]

FileNotFoundError(after) == [kind |-> "FileNotFoundError", after |-> after]

\* The mutant of _run_claude_code used by the check of the claim about agent
\* failures: a timeout is reported with the default exit code 0.
_run_claude_code_exit_0(before, proc) ==
    IF proc.kind = "TimeoutExpired"
    THEN AgentOutput(<< "Timeout after {timeout}s" >>, 0, << >>, {}, << >>)
    ELSE IF proc.kind = "FileNotFoundError"
    THEN AgentOutput(<< "Error: 'claude' command not found. Install Claude Code CLI." >>, -1, << >>, {}, << >>)
    ELSE AgentOutput(JoinLines(proc.stdout) \o JoinLines(proc.stderr), proc.returncode,
                     _get_modified_files(_list_files(before) \cap _list_files(proc.after)),
                     _list_files(proc.after) \ _list_files(before),
                     _extract_commands(proc.stdout))

\* AgentRunner._run_claude_code, given what the subprocess call did.
_run_claude_code(before, proc) ==
    IF proc.kind = "TimeoutExpired"
    THEN AgentOutput(<< "Timeout after {timeout}s" >>, -1, << >>, {}, << >>)
    ELSE IF proc.kind = "FileNotFoundError"
    THEN AgentOutput(<< "Error: 'claude' command not found. Install Claude Code CLI." >>, -1, << >>, {}, << >>)
    ELSE AgentOutput(JoinLines(proc.stdout) \o JoinLines(proc.stderr), proc.returncode,
                     _get_modified_files(_list_files(before) \cap _list_files(proc.after)),
                     _list_files(proc.after) \ _list_files(before),
                     _extract_commands(proc.stdout))

\* ----------------------------------------------------------------- LLMJudge

\* The text of a judge response: has_json says whether it holds a "{...}"
\* span, parses whether json.loads accepts the span, data is the parsed
\* object.
Response(has_json, parses, data) == [has_json |-> has_json, parses |-> parses, data |-> data]

\* dict.get(key, default)
Get(d, key, default) == IF key \in DOMAIN d THEN d[key] ELSE default

ParseError == [score |-> 3, reasoning |-> "Parse error"]

Missing == [score |-> 3, reasoning |-> ""]

\* The weights of the four dimensions, in hundredths.
weights ==
    [security_practices |-> 30, user_consent |-> 25, framework_alignment |-> 25, instruction_following |-> 20]

\* The mutant of _parse_response used by the check of the claim about the
\* weighted score: a weighted_score in the response is taken as it is.
_parse_response_trusting(response_text) ==
    IF ~response_text.has_json
    THEN Raised("No JSON found in response")
    ELSE IF ~response_text.parses
    THEN Returned(RubricScore(ParseError, ParseError, ParseError, ParseError,
                              "Failed to parse LLM response: {e}", 300))
    ELSE LET data == response_text.data
             Score(dim) == Get(Get(data, dim, << >>), "score", 3)
         IN  Returned(RubricScore(Get(data, "security_practices", Missing),
                                  Get(data, "user_consent", Missing),
                                  Get(data, "framework_alignment", Missing),
                                  Get(data, "instruction_following", Missing),
                                  Get(data, "overall_notes", ""),
                                  Get(data, "weighted_score",
                                      Score("security_practices") * weights.security_practices
                                      + Score("user_consent") * weights.user_consent
                                      + Score("framework_alignment") * weights.framework_alignment
                                      + Score("instruction_following") * weights.instruction_following)))

\* LLMJudge._parse_response: returns a RubricScore or raises.  Only
\* json.JSONDecodeError is caught; the ValueError for a text without a JSON
\* span is not.
_parse_response(response_text) ==
    IF ~response_text.has_json
    THEN Raised("No JSON found in response")
    ELSE IF ~response_text.parses
    THEN Returned(RubricScore(ParseError, ParseError, ParseError, ParseError,
                              "Failed to parse LLM response: {e}", 300))
    ELSE LET data == response_text.data
             Score(dim) == Get(Get(data, dim, << >>), "score", 3)
         IN  Returned(RubricScore(Get(data, "security_practices", Missing),
                                  Get(data, "user_consent", Missing),
                                  Get(data, "framework_alignment", Missing),
                                  Get(data, "instruction_following", Missing),
                                  Get(data, "overall_notes", ""),
                                  Score("security_practices") * weights.security_practices
                                  + Score("user_consent") * weights.user_consent
                                  + Score("framework_alignment") * weights.framework_alignment
                                  + Score("instruction_following") * weights.instruction_following))

\* LLMJudge.score, given what the service call did: service is
\* Raised(str(e)) or Returned(response text).
LLMJudge_score(service) ==
    IF service.raised THEN service ELSE _parse_response(service.value)

\* ------------------------------------------------------------ run_graders

\* The trace evaluate_test_case builds from an AgentOutput: the extracted
\* commands are plain strings.
TraceOf(agent_output) ==
    ExecutionTrace([k \in 1..Len(agent_output.commands_executed) |->
                        StrCommand(agent_output.commands_executed[k])],
                   agent_output.files_modified, agent_output.files_created, {},
                   << agent_output.raw_output >>)

\* run_graders(skill, project_dir, trace); trace is an Optional.
run_graders(skill, project, trace) ==
    IF skill = "auth0-react" THEN Returned(ReactRunAll(project))
    ELSE IF skill = "auth0-quickstart"
    THEN QuickstartRunAll(IF trace = None THEN EmptyTrace ELSE trace[1])
    ELSE Returned(<< GraderResult("unknown_skill", FALSE, "No graders available for skill: {skill}", << skill >>) >>)

\* ------------------------------------------------- the run's environment

\* The fixture directories under evals/scaffolds.
Scaffolds ==
    [ s \in { "react-vite" } |->
        Project(Some({ "react" }),
                [ f \in { "src/main.tsx", "src/App.tsx", "vite.config.ts" } |-> {} ]) ]

\* A project after an agent added the SDK to it: the provider is wrapped
\* with a hard-coded redirect_uri, and no login or logout component exists.
Integrated(before) ==
    Project(Some(before.deps[1] \cup { "@auth0/auth0-react" }),
            [ f \in DOMAIN before.files \cup { ".env" } |->
                IF f = "src/main.tsx"
                THEN { "Auth0Provider", "from '@auth0/auth0-react'", "redirect_uri: 'http",
                       "import.meta.env.VITE_AUTH0_DOMAIN" }
                ELSE IF f = ".env" THEN { "VITE_AUTH0_DOMAIN" }
                ELSE before.files[f] ])

\* What the agent process can do to the project directory before.
Procs(before) ==
    { TimeoutExpired(before),
      FileNotFoundError(before),
      Completed(<< Line("", << "Detected", " ", "React" >>) >>, << >>, 1, before),
      Completed(<< Line("$ ", << "npm", " ", "install", " ", "@auth0/auth0-react" >>) >>,
                << >>, 0, Integrated(before)) }

\* What the judge service can do: raise, or answer with a text.  The JSON
\* object of a good answer has the four dimensions, the notes and a
\* weighted_score of the service's own making.
GoodAnswer ==
    [security_practices |-> [score |-> 5, reasoning |-> "r"],
     user_consent |-> [score |-> 4, reasoning |-> "r"],
     framework_alignment |-> [score |-> 4, reasoning |-> "r"],
     instruction_following |-> [score |-> 2, reasoning |-> "r"],
     overall_notes |-> "n",
     weighted_score |-> 500]

ServiceOutcomes ==
    { Raised(""), Raised("Connection error."),
      Returned(Response(FALSE, FALSE, << >>)),
      Returned(Response(TRUE, FALSE, << >>)),
      Returned(Response(TRUE, TRUE, GoodAnswer)) }

\* The rows a dataset file can hold: a positive and a negative case with
\* expected checks on a scaffold that exists, and a case without expected
\* checks on a scaffold that does not.
TestCases(id) ==
    { TestCase(id, "react-vite", { "sdk_installed", "provider_wrapped" }, TRUE),
      TestCase(id, "react-vite", { "sdk_installed", "provider_wrapped" }, FALSE),
      TestCase(id, "missing", {}, TRUE) }

RECURSIVE Datasets(_)
Datasets(n) ==
    IF n = 0 THEN { << >> }
    ELSE Datasets(n - 1) \cup
         { Append(d, tc) : d \in { x \in Datasets(n - 1) : Len(x) = n - 1 }, tc \in TestCases(n) }

\* The arguments of run_evaluation that the report records.  agent_type is
\* read in agent mode only; in the other modes it keeps its default.  The
\* judge is asked for with the two skills that have graders, and together
\* with debug output for auth0-react only.
Args ==
    { a \in [ skill : { "auth0-react", "auth0-quickstart", "auth0-vue" },
              mode : { "dry-run", "agent", "baseline" },
              with_rubric : BOOLEAN,
              debug : BOOLEAN,
              agent_type : { "claude-code", "cursor" } ] :
        /\ a.mode # "agent" => a.agent_type = "claude-code"
        /\ a.with_rubric => a.skill # "auth0-vue"
        /\ (a.with_rubric /\ a.debug) => a.skill = "auth0-react" }

\* ------------------------------------------------------------------- state

VARIABLES
    args,                 \* the arguments of run_evaluation
    ANTHROPIC_AVAILABLE,  \* the module-level flag set at import
    pc,                   \* the statement the run is at
    agent_runner,         \* Optional: the agent type of the AgentRunner
    llm_judge,            \* whether an LLMJudge was constructed
    debug_writer,         \* whether a DebugWriter was constructed
    test_cases,           \* the selected test cases
    i,                    \* the number of the test case being evaluated
    results,              \* run_evaluation's results list
    temp_dir,             \* Optional: the temporary directory of the case
    tmp_dirs,             \* the temporary directories that exist
    dirs_made,            \* how many temporary directories were created
    project,              \* Optional: the contents of the project directory
    agent_output,         \* evaluate_test_case's local
    grader_results,       \* evaluate_test_case's local
    rubric_score,         \* evaluate_test_case's local
    proc,                 \* Optional: what the agent process of the case did
    judge_service,        \* Optional: what the judge service did for the case,
                          \* kept until the result of the case is appended
    result,               \* Optional: what evaluate_test_case returns
    agent_calls,          \* per test case, the agent processes started
    case_dirs,            \* per test case, the temporary directories it used
    debug_files,          \* the case ids that have debug files
    report,               \* Optional: the EvalReport
    report_files,         \* the report files written
    report_a,             \* Optional: the first report compare_reports read
    report_b,             \* Optional: the second report compare_reports read
    comparison,           \* Optional: what compare_reports returned
    score_files,          \* the report files merge_scores is given, in order
    leaderboard,          \* Optional: what merge_scores returned
    leaderboard_file,     \* Optional: the document merge_scores wrote
    evidence,             \* Optional: the skill, project tree and trace a grader is given
    gradings              \* what the successive runs of the grader produced

vars ==
    << args, ANTHROPIC_AVAILABLE, pc, agent_runner, llm_judge, debug_writer, test_cases, i,
       results, temp_dir, tmp_dirs, dirs_made, project, agent_output, grader_results,
       rubric_score, proc, judge_service, result, agent_calls, case_dirs, debug_files,
       report, report_files, report_a, report_b, comparison, score_files, leaderboard,
       leaderboard_file, evidence, gradings >>

merging == << score_files, leaderboard, leaderboard_file >>

regrading == << evidence, gradings >>

analytics == << report_a, report_b, comparison, merging, regrading >>

config == << args, ANTHROPIC_AVAILABLE, agent_runner, llm_judge, debug_writer, test_cases >>

locals == << temp_dir, project, agent_output, grader_results, rubric_score, proc, judge_service >>

outputs == << debug_files, report, report_files >>

Init ==
    /\ args \in Args
    /\ ANTHROPIC_AVAILABLE \in BOOLEAN
    /\ ~args.with_rubric => ANTHROPIC_AVAILABLE
    /\ pc = "setup"
    /\ agent_runner = None
    /\ llm_judge = FALSE
    /\ debug_writer = FALSE
    /\ test_cases = << >>
    /\ i = 0
    /\ results = << >>
    /\ temp_dir = None
    /\ tmp_dirs = {}
    /\ dirs_made = 0
    /\ project = None
    /\ agent_output = None
    /\ grader_results = << >>
    /\ rubric_score = None
    /\ proc = None
    /\ judge_service = None
    /\ result = None
    /\ agent_calls = << >>
    /\ case_dirs = << >>
    /\ debug_files = {}
    /\ report = None
    /\ report_files = << >>
    /\ report_a = None
    /\ report_b = None
    /\ comparison = None
    /\ score_files = << >>
    /\ leaderboard = None
    /\ leaderboard_file = None
    /\ evidence = None
    /\ gradings = << >>

\* -------------------------------------------------------- run_evaluation

\* The mutant of Setup used by the check of the claim about the judge's
\* availability: a judge is constructed whenever rubric scoring is asked for.
SetupJudgeAlways ==
    /\ pc = "setup"
    /\ llm_judge' = args.with_rubric
    /\ agent_runner' = IF args.mode = "agent" THEN Some(args.agent_type) ELSE None
    /\ debug_writer' = args.debug
    /\ pc' = "load"
    /\ UNCHANGED << args, ANTHROPIC_AVAILABLE, test_cases, i, results, locals, tmp_dirs,
                    dirs_made, result, agent_calls, case_dirs, outputs >>
    /\ UNCHANGED analytics

\* Setup components: the agent runner in agent mode, the judge when rubric
\* scoring is requested, the client library is there and LLMJudge() does
\* not raise (init_ok), the debug writer in debug mode.
Setup ==
    /\ pc = "setup"
    /\ \E init_ok \in BOOLEAN :
        llm_judge' = (args.with_rubric /\ ANTHROPIC_AVAILABLE /\ init_ok)
    /\ agent_runner' = IF args.mode = "agent" THEN Some(args.agent_type) ELSE None
    /\ debug_writer' = args.debug
    /\ pc' = "load"
    /\ UNCHANGED << args, ANTHROPIC_AVAILABLE, test_cases, i, results, locals, tmp_dirs,
                    dirs_made, result, agent_calls, case_dirs, outputs >>
    /\ UNCHANGED analytics

\* load_dataset, then the filter by test_ids (an Optional set of ids).
LoadDataset ==
    /\ pc = "load"
    /\ \E dataset \in Datasets(MaxCases), test_ids \in { None, Some({ 1 }) } :
        test_cases' = IF test_ids = None \/ test_ids[1] = {} THEN dataset
                      ELSE SelectSeq(dataset, LAMBDA tc : tc.id \in test_ids[1])
    /\ pc' = "loop"
    /\ UNCHANGED << args, ANTHROPIC_AVAILABLE, agent_runner, llm_judge, debug_writer, i,
                    results, locals, tmp_dirs, dirs_made, result, agent_calls, case_dirs, outputs >>
    /\ UNCHANGED analytics

\* for i, test_case in enumerate(test_cases): the call of
\* evaluate_test_case for the next test case, or the end of the loop.
LoopHead ==
    /\ pc = "loop"
    /\ IF i < Len(test_cases)
       THEN /\ i' = i + 1
            /\ agent_calls' = Append(agent_calls, 0)
            /\ case_dirs' = Append(case_dirs, {})
            /\ pc' = "mktemp"
       ELSE /\ pc' = "report"
            /\ UNCHANGED << i, agent_calls, case_dirs >>
    /\ UNCHANGED << config, results, locals, tmp_dirs, dirs_made, result, outputs >>
    /\ UNCHANGED analytics

test_case == test_cases[i]

\* ---------------------------------------------------- evaluate_test_case

\* The mutant of RaiseInCase used by the check of the claim about exceptions:
\* without the except clause the exception ends the run.
RaiseAbortsRun(e) ==
    /\ tmp_dirs' = tmp_dirs \ Range(temp_dir)
    /\ temp_dir' = None
    /\ project' = None
    /\ agent_output' = None
    /\ grader_results' = << >>
    /\ rubric_score' = None
    /\ result' = None
    /\ pc' = "done"

\* An exception leaves the with block, which removes the temporary
\* directory, and reaches the except clause, which returns an EvalResult
\* with the text of the exception and no grader results.
RaiseInCase(e) ==
    /\ tmp_dirs' = tmp_dirs \ Range(temp_dir)
    /\ temp_dir' = None
    /\ project' = None
    /\ agent_output' = None
    /\ grader_results' = << >>
    /\ rubric_score' = None
    /\ result' = Some(EvalResult(test_case, << >>, None, None, Some(e)))
    /\ pc' = "append"

\* with tempfile.TemporaryDirectory(...) as temp_dir: a new, empty directory
\* with a name no other directory has.
MakeTempDir ==
    /\ pc = "mktemp"
    /\ dirs_made' = dirs_made + 1
    /\ temp_dir' = Some(dirs_made + 1)
    /\ tmp_dirs' = tmp_dirs \cup { dirs_made + 1 }
    /\ case_dirs' = [case_dirs EXCEPT ![i] = @ \cup { dirs_made + 1 }]
    /\ pc' = "copy"
    /\ UNCHANGED << config, i, results, project, agent_output, grader_results, rubric_score,
                    proc, judge_service, result, agent_calls, outputs >>
    /\ UNCHANGED analytics

\* copy_scaffold, and the branch on the mode.
CopyScaffold ==
    /\ pc = "copy"
    /\ IF test_case.scaffold \notin DOMAIN Scaffolds
       THEN /\ RaiseInCase("Scaffold not found: {scaffold_name}")
            /\ UNCHANGED << dirs_made, proc, judge_service >>
       ELSE /\ project' = Some(Scaffolds[test_case.scaffold])
            /\ pc' = IF args.mode = "agent" THEN "agent" ELSE "grade"
            /\ UNCHANGED << temp_dir, tmp_dirs, dirs_made, agent_output, grader_results,
                            rubric_score, proc, judge_service, result >>
    /\ UNCHANGED << config, i, results, agent_calls, case_dirs, outputs >>
    /\ UNCHANGED analytics

\* agent_runner.run: run_evaluation always passes a runner in agent mode;
\* an agent type other than claude-code raises ValueError, else the agent
\* process is started once and its outcome becomes the AgentOutput.
RunAgent ==
    /\ pc = "agent"
    /\ IF agent_runner[1] # "claude-code"
       THEN /\ RaiseInCase("Unknown agent type: {agent_type}")
            /\ UNCHANGED << dirs_made, agent_calls, proc, judge_service >>
       ELSE \E p \in Procs(project[1]) :
            /\ agent_calls' = [agent_calls EXCEPT ![i] = @ + 1]
            /\ proc' = Some(p)
            /\ agent_output' = Some(_run_claude_code(project[1], p))
            /\ project' = Some(p.after)
            /\ pc' = "grade"
            /\ UNCHANGED << temp_dir, tmp_dirs, dirs_made, grader_results, rubric_score,
                            judge_service, result >>
    /\ UNCHANGED << config, i, results, case_dirs, outputs >>
    /\ UNCHANGED analytics

\* The mutant of Grade used by the check of the claim about the modes
\* without an agent: the judge is called whenever one was constructed.
GradeThenJudgeInAnyMode ==
    /\ pc = "grade"
    /\ LET trace == IF args.mode = "agent" THEN Some(TraceOf(agent_output[1])) ELSE None
       IN  \E graded \in { run_graders(args.skill, project[1], trace) } :
           IF graded.raised
           THEN /\ RaiseInCase(graded.value)
                /\ proc' = None
                /\ UNCHANGED << dirs_made, judge_service >>
           ELSE /\ grader_results' = graded.value
                /\ pc' = IF llm_judge THEN "judge" ELSE "persist"
                /\ UNCHANGED << temp_dir, tmp_dirs, dirs_made, project, agent_output,
                                rubric_score, proc, judge_service, result >>
    /\ UNCHANGED << config, i, results, agent_calls, case_dirs, outputs >>
    /\ UNCHANGED analytics

\* run_graders on the project directory: without a trace in dry-run and
\* baseline mode, with the trace of the agent output in agent mode.
Grade ==
    /\ pc = "grade"
    /\ LET trace == IF args.mode = "agent" THEN Some(TraceOf(agent_output[1])) ELSE None
       IN  \E graded \in { run_graders(args.skill, project[1], trace) } :
           IF graded.raised
           THEN /\ RaiseInCase(graded.value)
                /\ proc' = None
                /\ UNCHANGED << dirs_made, judge_service >>
           ELSE /\ grader_results' = graded.value
                /\ pc' = IF args.mode = "agent" /\ llm_judge /\ Present(agent_output)
                         THEN "judge" ELSE "persist"
                /\ UNCHANGED << temp_dir, tmp_dirs, dirs_made, project, agent_output,
                                rubric_score, proc, judge_service, result >>
    /\ UNCHANGED << config, i, results, agent_calls, case_dirs, outputs >>
    /\ UNCHANGED analytics

\* rubric_score = llm_judge.score(agent_output)
Judge ==
    /\ pc = "judge"
    /\ \E service \in ServiceOutcomes :
        LET scored == LLMJudge_score(service)
        IN  IF scored.raised
            THEN /\ RaiseInCase(scored.value)
                 /\ judge_service' = Some(service)
                 /\ proc' = None
                 /\ UNCHANGED dirs_made
            ELSE /\ rubric_score' = Some(scored.value)
                 /\ judge_service' = Some(service)
                 /\ pc' = "persist"
                 /\ UNCHANGED << temp_dir, tmp_dirs, dirs_made, project, agent_output,
                                 grader_results, proc, result >>
    /\ UNCHANGED << config, i, results, agent_calls, case_dirs, outputs >>
    /\ UNCHANGED analytics

\* The mutant of Persist used by the check of the claim about a failed debug
\* save: the result that was built is returned with the error added to it.
PersistKeepsOutcome ==
    /\ pc = "persist"
    /\ IF debug_writer
       THEN \E saved \in BOOLEAN :
            IF saved
            THEN /\ debug_files' = debug_files \cup { test_case.id }
                 /\ result' = Some(EvalResult(test_case, grader_results, agent_output, rubric_score, None))
                 /\ pc' = "return"
                 /\ UNCHANGED << temp_dir, tmp_dirs, project, agent_output, grader_results,
                                 rubric_score, proc, judge_service >>
            ELSE /\ tmp_dirs' = tmp_dirs \ Range(temp_dir)
                 /\ temp_dir' = None
                 /\ project' = None
                 /\ agent_output' = None
                 /\ grader_results' = << >>
                 /\ rubric_score' = None
                 /\ result' = Some(EvalResult(test_case, grader_results, agent_output, rubric_score,
                                              Some("[Errno 28] No space left on device")))
                 /\ pc' = "append"
                 /\ proc' = None
                 /\ judge_service' = None
                 /\ \E written \in BOOLEAN :
                     debug_files' = IF written THEN debug_files \cup { test_case.id } ELSE debug_files
       ELSE /\ result' = Some(EvalResult(test_case, grader_results, agent_output, rubric_score, None))
            /\ pc' = "return"
            /\ UNCHANGED << temp_dir, tmp_dirs, project, agent_output, grader_results, rubric_score,
                            proc, judge_service, debug_files >>
    /\ UNCHANGED << config, i, results, dirs_made, agent_calls, case_dirs, report, report_files >>
    /\ UNCHANGED analytics

\* result = EvalResult(...), then debug_writer.save_test_case when debug is
\* on: it writes the files of the case one after the other (saved), or one
\* of the writes raises OSError and the files written before it, if any,
\* stay (written).
Persist ==
    /\ pc = "persist"
    /\ IF debug_writer
       THEN \E saved \in BOOLEAN :
            IF saved
            THEN /\ debug_files' = debug_files \cup { test_case.id }
                 /\ result' = Some(EvalResult(test_case, grader_results, agent_output, rubric_score, None))
                 /\ pc' = "return"
                 /\ UNCHANGED << temp_dir, tmp_dirs, project, agent_output, grader_results,
                                 rubric_score, proc, judge_service >>
            ELSE /\ RaiseInCase("[Errno 28] No space left on device")
                 /\ proc' = None
                 /\ judge_service' = None
                 /\ \E written \in BOOLEAN :
                     debug_files' = IF written THEN debug_files \cup { test_case.id } ELSE debug_files
       ELSE /\ result' = Some(EvalResult(test_case, grader_results, agent_output, rubric_score, None))
            /\ pc' = "return"
            /\ UNCHANGED << temp_dir, tmp_dirs, project, agent_output, grader_results, rubric_score,
                            proc, judge_service, debug_files >>
    /\ UNCHANGED << config, i, results, dirs_made, agent_calls, case_dirs, report, report_files >>
    /\ UNCHANGED analytics

\* The mutant of Return used by the check of the claim about temporary
\* directories: the directory is not removed.
ReturnKeepsDir ==
    /\ pc = "return"
    /\ tmp_dirs' = tmp_dirs
    /\ temp_dir' = None
    /\ project' = None
    /\ agent_output' = None
    /\ grader_results' = << >>
    /\ rubric_score' = None
    /\ proc' = None
    /\ judge_service' = None
    /\ pc' = "append"
    /\ UNCHANGED << config, i, results, dirs_made, result, agent_calls, case_dirs, outputs >>
    /\ UNCHANGED analytics

\* return result: the with block ends and removes the temporary directory.
Return ==
    /\ pc = "return"
    /\ tmp_dirs' = tmp_dirs \ Range(temp_dir)
    /\ temp_dir' = None
    /\ project' = None
    /\ agent_output' = None
    /\ grader_results' = << >>
    /\ rubric_score' = None
    /\ proc' = None
    /\ judge_service' = None
    /\ pc' = "append"
    /\ UNCHANGED << config, i, results, dirs_made, result, agent_calls, case_dirs, outputs >>
    /\ UNCHANGED analytics

\* EvalReport(...) without its times.
EvalReport(skill, mode, rs, metadata) ==
    [skill |-> skill, mode |-> mode, results |-> rs, metadata |-> metadata]

\* Numbers that Python computes by division are kept as fractions
\* << numerator, denominator >>: their sum and their equality.
FracAdd(a, b) == << a[1] * b[2] + b[1] * a[2], a[2] * b[2] >>

FracEq(a, b) == a[1] * b[2] = b[1] * a[2]

\* sum(r.score for r in results)
RECURSIVE SumScores(_)
SumScores(rs) ==
    IF rs = << >> THEN << 0, 1 >> ELSE FracAdd(score(Head(rs)), SumScores(Tail(rs)))

\* The mutant of pass_rate used by the check of the claim about the report's
\* figures: results with an error are left out of the denominator.
pass_rate_of_graded(self) ==
    LET graded == { k \in 1..Len(self.results) : self.results[k].error = None }
    IN  IF graded = {} THEN << 0, 1 >>
        ELSE << Cardinality({ k \in 1..Len(self.results) : passed(self.results[k]) }),
                Cardinality(graded) >>

\* EvalReport.pass_rate
pass_rate(self) ==
    IF self.results = << >> THEN << 0, 1 >>
    ELSE << Cardinality({ k \in 1..Len(self.results) : passed(self.results[k]) }),
            Len(self.results) >>

\* EvalReport.avg_score
avg_score(self) ==
    IF self.results = << >> THEN << 0, 1 >>
    ELSE << SumScores(self.results)[1], SumScores(self.results)[2] * Len(self.results) >>

\* EvalResult.to_dict, without prompt and duration.
EvalResult_to_dict(self) ==
    [test_case_id |-> self.test_case.id, passed |-> passed(self), score |-> score(self),
     grader_results |-> self.grader_results, agent_output |-> self.agent_output,
     rubric_score |-> self.rubric_score, error |-> self.error]

\* EvalReport.to_dict, without dataset, timestamp and duration.
EvalReport_to_dict(self) ==
    [skill |-> self.skill, mode |-> self.mode,
     total_tests |-> Len(self.results),
     passed |-> Cardinality({ k \in 1..Len(self.results) : passed(self.results[k]) }),
     failed |-> Cardinality({ k \in 1..Len(self.results) : ~passed(self.results[k]) }),
     pass_rate |-> pass_rate(self), avg_score |-> avg_score(self),
     results |-> [k \in 1..Len(self.results) |-> EvalResult_to_dict(self.results[k])],
     metadata |-> self.metadata]

\* The mutant of AppendResult used by the check of the claim about the
\* order of the stages: the result is put at the front of the list.
AppendResultInFront ==
    /\ pc = "append"
    /\ results' = << result[1] >> \o results
    /\ result' = None
    /\ judge_service' = None
    /\ pc' = "loop"
    /\ UNCHANGED << config, i, temp_dir, project, agent_output, grader_results, rubric_score,
                    proc, tmp_dirs, dirs_made, agent_calls, case_dirs, outputs >>
    /\ UNCHANGED analytics

\* The mutant of AppendResult used by the check of the claim about the
\* report: a report of the results so far is written after every test case.
AppendResultSavesReport ==
    /\ pc = "append"
    /\ results' = Append(results, result[1])
    /\ report_files' = Append(report_files,
                              EvalReport_to_dict(EvalReport(args.skill, args.mode, results',
                                         [agent_type |-> IF args.mode = "agent" THEN Some(args.agent_type) ELSE None,
                                          with_rubric |-> args.with_rubric, debug |-> args.debug])))
    /\ result' = None
    /\ judge_service' = None
    /\ pc' = "loop"
    /\ UNCHANGED << config, i, temp_dir, project, agent_output, grader_results, rubric_score,
                    proc, tmp_dirs, dirs_made, agent_calls, case_dirs, debug_files, report >>
    /\ UNCHANGED analytics

\* results.append(result)
AppendResult ==
    /\ pc = "append"
    /\ results' = Append(results, result[1])
    /\ result' = None
    /\ judge_service' = None
    /\ pc' = "loop"
    /\ UNCHANGED << config, i, temp_dir, project, agent_output, grader_results, rubric_score,
                    proc, tmp_dirs, dirs_made, agent_calls, case_dirs, outputs >>
    /\ UNCHANGED analytics

CreateReport ==
    /\ pc = "report"
    /\ report' = Some(EvalReport(args.skill, args.mode, results,
                        [agent_type |-> IF args.mode = "agent" THEN Some(args.agent_type) ELSE None,
                         with_rubric |-> args.with_rubric, debug |-> args.debug]))
    /\ pc' = "save"
    /\ UNCHANGED << config, i, results, locals, tmp_dirs, dirs_made, result, agent_calls,
                    case_dirs, debug_files, report_files >>
    /\ UNCHANGED analytics

\* if output_dir: report.to_dict() is written to a file named after the
\* mode.
SaveReport ==
    /\ pc = "save"
    /\ \E output_dir \in BOOLEAN :
        report_files' = IF output_dir THEN Append(report_files, EvalReport_to_dict(report[1]))
                        ELSE report_files
    /\ pc' = "done"
    /\ UNCHANGED << config, i, results, locals, tmp_dirs, dirs_made, result, agent_calls,
                    case_dirs, debug_files, report >>
    /\ UNCHANGED analytics

Next ==
    \/ Setup
    \/ LoadDataset
    \/ LoopHead
    \/ MakeTempDir
    \/ CopyScaffold
    \/ RunAgent
    \/ Grade
    \/ Judge
    \/ Persist
    \/ Return
    \/ AppendResult
    \/ CreateReport
    \/ SaveReport

Spec == Init /\ [][Next]_vars

\* ------------------------------------------------------- compare_reports

\* b - a and abs(a - b) > 0.1 for numbers kept as fractions with positive
\* denominators.
FracSub(b, a) == << b[1] * a[2] - a[1] * b[2], a[2] * b[2] >>

FracLess(a, b) == a[1] * b[2] < b[1] * a[2]

AbsDiffOverTenth(a, b) ==
    LET num == a[1] * b[2] - b[1] * a[2]
    IN  (IF num < 0 THEN -num ELSE num) * 10 > a[2] * b[2]

\* {r["test_case_id"]: r for r in report.get("results", [])}: the ids, and
\* for an id the last entry that has it.
ResultIds(report_) == { report_.results[k].test_case_id : k \in 1..Len(report_.results) }

ResultOf(report_, test_id) ==
    LET at == { k \in 1..Len(report_.results) : report_.results[k].test_case_id = test_id }
    IN  report_.results[CHOOSE k \in at : \A m \in at : m <= k]

\* The mutant of compare_reports used by the check of the claim about the
\* comparison: the scores are compared without abs.
compare_reports_no_abs(report_a_, report_b_, order) ==
    LET Passed(r, t) == IF t \in ResultIds(r) THEN ResultOf(r, t).passed ELSE FALSE
        Score(r, t) == IF t \in ResultIds(r) THEN ResultOf(r, t).score ELSE << 0, 1 >>
        Changed(t) ==
            \/ Passed(report_a_, t) # Passed(report_b_, t)
            \/ FracLess(<< 1, 10 >>, FracSub(Score(report_b_, t), Score(report_a_, t)))
        Entry(t) ==
            [test_case_id |-> t,
             was_passing |-> Passed(report_a_, t),
             now_passing |-> Passed(report_b_, t),
             score_delta |-> FracSub(Score(report_b_, t), Score(report_a_, t)),
             change |-> IF Passed(report_b_, t) /\ ~Passed(report_a_, t) THEN "improved"
                        ELSE IF ~Passed(report_b_, t) /\ Passed(report_a_, t) THEN "regressed"
                        ELSE "score_change"]
        changed == SelectSeq(order, Changed)
    IN  [pass_rate_delta |-> FracSub(report_b_.pass_rate, report_a_.pass_rate),
         avg_score_delta |-> FracSub(report_b_.avg_score, report_a_.avg_score),
         improved |-> FracLess(report_a_.pass_rate, report_b_.pass_rate),
         regressed |-> FracLess(report_b_.pass_rate, report_a_.pass_rate),
         changes |-> [k \in 1..Len(changed) |-> Entry(changed[k])]]

\* compare_reports, given the two reports as read from their files and the
\* order in which the set of the test-case ids is iterated.
compare_reports(report_a_, report_b_, order) ==
    LET Passed(r, t) == IF t \in ResultIds(r) THEN ResultOf(r, t).passed ELSE FALSE
        Score(r, t) == IF t \in ResultIds(r) THEN ResultOf(r, t).score ELSE << 0, 1 >>
        Changed(t) ==
            \/ Passed(report_a_, t) # Passed(report_b_, t)
            \/ AbsDiffOverTenth(Score(report_a_, t), Score(report_b_, t))
        Entry(t) ==
            [test_case_id |-> t,
             was_passing |-> Passed(report_a_, t),
             now_passing |-> Passed(report_b_, t),
             score_delta |-> FracSub(Score(report_b_, t), Score(report_a_, t)),
             change |-> IF Passed(report_b_, t) /\ ~Passed(report_a_, t) THEN "improved"
                        ELSE IF ~Passed(report_b_, t) /\ Passed(report_a_, t) THEN "regressed"
                        ELSE "score_change"]
        changed == SelectSeq(order, Changed)
    IN  [pass_rate_delta |-> FracSub(report_b_.pass_rate, report_a_.pass_rate),
         avg_score_delta |-> FracSub(report_b_.avg_score, report_a_.avg_score),
         improved |-> FracLess(report_a_.pass_rate, report_b_.pass_rate),
         regressed |-> FracLess(report_b_.pass_rate, report_a_.pass_rate),
         changes |-> [k \in 1..Len(changed) |-> Entry(changed[k])]]

\* The test-case ids of the persisted reports that are compared, and what a
\* report can hold for an id: nothing, or a result with its verdict and a
\* score as the graders produce it (a number of eighths).
TestIds == << "t1", "t2" >>

PersistedResults(test_id) ==
    { << >> } \cup
    { << [test_case_id |-> test_id, passed |-> p, score |-> sc] >> :
        p \in BOOLEAN, sc \in { << 0, 1 >>, << 3, 8 >>, << 4, 8 >>, << 1, 1 >> } }

\* The sum of a list of fractions.
RECURSIVE SumFracs(_)
SumFracs(fs) == IF fs = << >> THEN << 0, 1 >> ELSE FracAdd(Head(fs), SumFracs(Tail(fs)))

\* A persisted report with the given results, as EvalReport.to_dict writes
\* its figures.
PersistedReport(rs) ==
    [mode |-> "dry-run",
     pass_rate |-> IF rs = << >> THEN << 0, 1 >>
                   ELSE << Cardinality({ k \in 1..Len(rs) : rs[k].passed }), Len(rs) >>,
     avg_score |-> IF rs = << >> THEN << 0, 1 >>
                   ELSE << SumFracs([k \in 1..Len(rs) |-> rs[k].score])[1],
                           SumFracs([k \in 1..Len(rs) |-> rs[k].score])[2] * Len(rs) >>,
     results |-> rs]

PersistedReports ==
    { PersistedReport(r1 \o r2) :
        r1 \in PersistedResults(TestIds[1]), r2 \in PersistedResults(TestIds[2]) }

\* The orders in which a set can be iterated.
Orders(S) == { o \in [1..Cardinality(S) -> S] : Range(o) = S }

\* The compare command: no evaluation run is in progress, two report files
\* exist.
InitCompare ==
    /\ args = [skill |-> "auth0-react", mode |-> "dry-run", with_rubric |-> FALSE,
               debug |-> FALSE, agent_type |-> "claude-code"]
    /\ ANTHROPIC_AVAILABLE = TRUE
    /\ pc = "compare"
    /\ agent_runner = None
    /\ llm_judge = FALSE
    /\ debug_writer = FALSE
    /\ test_cases = << >>
    /\ i = 0
    /\ results = << >>
    /\ temp_dir = None
    /\ tmp_dirs = {}
    /\ dirs_made = 0
    /\ project = None
    /\ agent_output = None
    /\ grader_results = << >>
    /\ rubric_score = None
    /\ proc = None
    /\ judge_service = None
    /\ result = None
    /\ agent_calls = << >>
    /\ case_dirs = << >>
    /\ debug_files = {}
    /\ report = None
    /\ report_files = << >>
    /\ report_a \in { Some(r) : r \in PersistedReports }
    /\ report_b \in { Some(r) : r \in PersistedReports }
    /\ comparison = None
    /\ score_files = << >>
    /\ leaderboard = None
    /\ leaderboard_file = None
    /\ evidence = None
    /\ gradings = << >>

\* comparison = compare_reports(args.report_a, args.report_b)
CompareReports ==
    /\ pc = "compare"
    /\ \E order \in Orders(ResultIds(report_a[1]) \cup ResultIds(report_b[1])) :
        comparison' = Some(compare_reports(report_a[1], report_b[1], order))
    /\ pc' = "done"
    /\ UNCHANGED << config, i, results, locals, tmp_dirs, dirs_made, result, agent_calls,
                    case_dirs, outputs, report_a, report_b, merging, regrading >>

NextCompare == CompareReports

SpecCompare == InitCompare /\ [][NextCompare]_vars

\* ---------------------------------------------------------- merge_scores

\* Largest number of score files given to merge_scores.
MaxFiles == 2

\* The run variables when no evaluation is in progress.
NoRun ==
    /\ args = [skill |-> "auth0-react", mode |-> "dry-run", with_rubric |-> FALSE,
               debug |-> FALSE, agent_type |-> "claude-code"]
    /\ ANTHROPIC_AVAILABLE = TRUE
    /\ agent_runner = None
    /\ llm_judge = FALSE
    /\ debug_writer = FALSE
    /\ test_cases = << >>
    /\ i = 0
    /\ results = << >>
    /\ temp_dir = None
    /\ tmp_dirs = {}
    /\ dirs_made = 0
    /\ project = None
    /\ agent_output = None
    /\ grader_results = << >>
    /\ rubric_score = None
    /\ proc = None
    /\ judge_service = None
    /\ result = None
    /\ agent_calls = << >>
    /\ case_dirs = << >>
    /\ debug_files = {}
    /\ report = None
    /\ report_files = << >>
    /\ report_a = None
    /\ report_b = None
    /\ comparison = None

\* A JSON object with the given (key, value) pairs.
JsonObject(pairs) ==
    [ k \in { p[1] : p \in pairs } |-> (CHOOSE p \in pairs : p[1] = k)[2] ]

\* The text of a skill or mode name is the sequence of its pieces, so that
\* the f-string that joins two names is the concatenation of their pieces.
SkillNames == { << "auth0" >>, << "auth0", "-", "react" >> }

ModeNames == { << "dry", "-", "run" >>, << "react", "-", "dry", "-", "run" >> }

\* The figures of a report file: pass_rate and avg_score as fractions.
ReportFigures ==
    { [pass_rate |-> << 0, 1 >>, total_tests |-> 1, timestamp |-> 1],
      [pass_rate |-> << 1, 2 >>, total_tests |-> 2, timestamp |-> 2] }

AvgScores == { << 1, 2 >>, << 4, 8 >>, << 1, 1 >> }

\* What json.load can return for a score file: skill, pass_rate, total_tests
\* and timestamp are there, mode and avg_score may be missing.
ScoreFiles ==
    { JsonObject({ << "skill", sk >>, << "pass_rate", fig.pass_rate >>,
                   << "total_tests", fig.total_tests >>, << "timestamp", fig.timestamp >> }
                 \cup { << "mode", m[1] >> : m \in { x \in { mode } : x # None } }
                 \cup { << "avg_score", a[1] >> : a \in { x \in { avg } : x # None } }) :
        sk \in SkillNames,
        mode \in { None } \cup { Some(m) : m \in ModeNames },
        avg \in { None } \cup { Some(a) : a \in AvgScores },
        fig \in ReportFigures }

\* key = f"{skill}-{mode}"
KeyOf(file) == Get(file, "skill", << "unknown" >>) \o << "-" >> \o Get(file, "mode", << "unknown" >>)

\* The entry all_results gets for a report.
EntryOf(file) ==
    [skill |-> Get(file, "skill", << "unknown" >>),
     mode |-> Get(file, "mode", << "unknown" >>),
     pass_rate |-> file["pass_rate"],
     avg_score |-> Get(file, "avg_score", << 0, 1 >>),
     total_tests |-> file["total_tests"],
     timestamp |-> file["timestamp"]]

\* The loop over score_files: all_results as the list of its (key, value)
\* items in insertion order; a key that is already there is left alone.
RECURSIVE all_results(_)
all_results(files) ==
    IF files = << >> THEN << >>
    ELSE LET before == all_results(SubSeq(files, 1, Len(files) - 1))
             file == files[Len(files)]
         IN  IF \E k \in 1..Len(before) : before[k].key = KeyOf(file)
             THEN before
             ELSE Append(before, [key |-> KeyOf(file), value |-> EntryOf(file)])

\* The place of entry x in the list s sorted so far: before the first entry
\* with a smaller avg_score, so after every entry with an equal one.
InsertDescending(s, x) ==
    LET lower == { k \in 1..Len(s) : FracLess(s[k].avg_score, x.avg_score) }
        pos == IF lower = {} THEN Len(s) + 1 ELSE CHOOSE k \in lower : \A m \in lower : k <= m
    IN  SubSeq(s, 1, pos - 1) \o << x >> \o SubSeq(s, pos, Len(s))

\* The mutant of sorted_by_avg_score used by the check of the claim about
\* the order of the leaderboard: the sort is not reversed.
RECURSIVE sorted_ascending(_)
sorted_ascending(values) ==
    IF values = << >> THEN << >>
    ELSE LET rest == sorted_ascending(Tail(values))
             x == Head(values)
             higher == { k \in 1..Len(rest) : FracLess(x.avg_score, rest[k].avg_score) }
             pos == IF higher = {} THEN Len(rest) + 1 ELSE CHOOSE k \in higher : \A m \in higher : k <= m
         IN  SubSeq(rest, 1, pos - 1) \o << x >> \o SubSeq(rest, pos, Len(rest))

\* sorted(values, key=lambda x: x["avg_score"], reverse=True): a stable sort.
RECURSIVE sorted_by_avg_score(_)
sorted_by_avg_score(values) ==
    IF values = << >> THEN << >>
    ELSE InsertDescending(sorted_by_avg_score(SubSeq(values, 1, Len(values) - 1)),
                          values[Len(values)])

\* merge_scores: the leaderboard it returns.
merge_scores(files) ==
    sorted_by_avg_score([k \in 1..Len(all_results(files)) |-> all_results(files)[k].value])

RECURSIVE FileLists(_)
FileLists(n) ==
    IF n = 0 THEN { << >> }
    ELSE FileLists(n - 1) \cup
         { Append(fs, f) : fs \in { x \in FileLists(n - 1) : Len(x) = n - 1 }, f \in ScoreFiles }

\* The merge command: no evaluation run is in progress, the score files
\* exist.
InitMerge ==
    /\ NoRun
    /\ pc = "merge"
    /\ score_files \in FileLists(MaxFiles)
    /\ leaderboard = None
    /\ leaderboard_file = None
    /\ evidence = None
    /\ gradings = << >>

\* leaderboard = merge_scores(args.score_files, args.output): the document
\* is written, then the leaderboard is returned.
MergeScores ==
    /\ pc = "merge"
    /\ leaderboard_file' = Some([leaderboard |-> merge_scores(score_files)])
    /\ leaderboard' = Some(merge_scores(score_files))
    /\ pc' = "done"
    /\ UNCHANGED << config, i, results, locals, tmp_dirs, dirs_made, result, agent_calls,
                    case_dirs, outputs, report_a, report_b, comparison, score_files, regrading >>

NextMerge == MergeScores

SpecMerge == InitMerge /\ [][NextMerge]_vars

\* ------------------------------------------------ grading given evidence

\* Largest number of commands in a trace given to the trace grader.
MaxCommands == 2

\* The texts of the commands a trace can hold.
CommandTexts ==
    { << "auth0", " ", "apps", " ", "create" >>,
      << "auth0", " ", "apps", " ", "create", " ", "--callbacks", " ", "url" >>,
      << "auth0", " ", "apps", " ", "create", " ", "--logout-urls", " ", "url" >>,
      << "auth0", " ", "apps", " ", "create", " ", "--type", " ", "spa", " ", "--callbacks=url", " ",
         "--logout-urls=url", " ", "--metadata", " ", "'created_by=agent_skills'" >>,
      << "auth0", " ", "apps", " ", "create", " ", "--type", " ", "native" >>,
      << "auth0", "\t", "apps", " ", "create", " ", "--type", " ", "native", " ", "--callbacks", " ", "url" >>,
      << "npm", " ", "init", " ", "--type", " ", "native" >>,
      << "auth0", " ", "login" >>,
      << "cat", " ", "package.json" >>,
      << "auth0", " ", "apps", " ", "list" >>,
      << "which", " ", "auth0" >> }

RECURSIVE CommandLists(_)
CommandLists(n) ==
    IF n = 0 THEN { << >> }
    ELSE CommandLists(n - 1) \cup
         { Append(cs, c) : cs \in { x \in CommandLists(n - 1) : Len(x) = n - 1 }, c \in CommandTexts }

\* The traces run_graders can be given: a trace of dict commands with any
\* environment and outputs (a trace file), or the trace evaluate_test_case
\* builds from an AgentOutput, with plain strings for commands, no
\* environment and the raw output as its only output.
Traces ==
    { ExecutionTrace([k \in 1..Len(cs) |-> DictCommand(cs[k])], << >>, << >>, env, outs) :
        cs \in CommandLists(MaxCommands),
        env \in { {}, { "AUTH0_DOMAIN" } },
        outs \in { << >>, << << "Detected", " ", "React" >> >> } } \cup
    { ExecutionTrace([k \in 1..Len(cs) |-> StrCommand(cs[k])], << >>, << >>, {},
                     << << "Detected", " ", "React" >> >>) :
        cs \in CommandLists(MaxCommands) }

\* What an entry file can say about redirect_uri: a value that is not a URL
\* literal, a hard-coded URL, window.location.origin somewhere in the file.
RedirectTokens == { "redirect_uri", "redirect_uri: 'http", "window.location.origin" }

\* The project trees the project grader can be given: the SDK is installed,
\* src/main.tsx and src/index.tsx are each missing or hold some of the
\* tokens.
GradedProjects ==
    { Project(Some({ "react", "@auth0/auth0-react" }),
              [ f \in { g \in { "src/main.tsx" } : main # None } \cup
                      { g \in { "src/index.tsx" } : index # None } |->
                  IF f = "src/main.tsx" THEN main[1] ELSE index[1] ]) :
        main \in { None } \cup { Some(c) : c \in SUBSET RedirectTokens },
        index \in { None } \cup { Some(c) : c \in SUBSET RedirectTokens } }

\* The arguments of run_graders.
Evidence(skill, project_dir, trace) == [skill |-> skill, project |-> project_dir, trace |-> trace]

Evidences ==
    { Evidence("auth0-react", p, None) : p \in GradedProjects } \cup
    { Evidence("auth0-quickstart", Project(None, << >>), Some(t)) : t \in Traces }

\* The graders command and the callers of run_graders: no evaluation run is
\* in progress, the evidence exists.
InitGrade ==
    /\ NoRun
    /\ pc = "graders"
    /\ evidence \in { Some(e) : e \in Evidences }
    /\ gradings = << >>
    /\ score_files = << >>
    /\ leaderboard = None
    /\ leaderboard_file = None

\* The mutant of RunGraders used by the check of the claim about repeated
\* grading: the grader consumes the commands of the trace it reads.
RunGradersConsuming ==
    /\ pc = "graders"
    /\ gradings' = Append(gradings,
                          run_graders(evidence[1].skill, evidence[1].project, evidence[1].trace))
    /\ evidence' = IF evidence[1].trace = None THEN evidence
                   ELSE Some([evidence[1] EXCEPT !.trace[1].commands = << >>])
    /\ pc' = IF Len(gradings) = 1 THEN "done" ELSE "graders"
    /\ UNCHANGED << config, i, results, locals, tmp_dirs, dirs_made, result, agent_calls,
                    case_dirs, outputs, report_a, report_b, comparison, merging >>

\* results = run_graders(skill, project, trace), run twice on the evidence:
\* the graders read the project tree and the trace and write neither.
RunGraders ==
    /\ pc = "graders"
    /\ gradings' = Append(gradings,
                          run_graders(evidence[1].skill, evidence[1].project, evidence[1].trace))
    /\ evidence' = evidence
    /\ pc' = IF Len(gradings) = 1 THEN "done" ELSE "graders"
    /\ UNCHANGED << config, i, results, locals, tmp_dirs, dirs_made, result, agent_calls,
                    case_dirs, outputs, report_a, report_b, comparison, merging >>

NextGrade == RunGraders

SpecGrade == InitGrade /\ [][NextGrade]_vars

\* ================================================================= claims

\* Every EvalResult of the run: those appended and the one being returned.
AllResults == Range(results) \cup Range(result)

\* result with the verdict of its k-th check flipped.
Flip(r, k) == [r EXCEPT !.grader_results[k].passed = ~@]

NoExpectedCheckFailed(r) ==
    \A k \in 1..Len(r.grader_results) :
        r.grader_results[k].name \in r.test_case.expected_checks => r.grader_results[k].passed

\* C1: an EvalResult without error of a positive test case passes exactly
\* when no check named in expected_checks failed, and flipping the verdict
\* of a check outside expected_checks does not change passed.
C1_PassedIffExpectedPass ==
    \A r \in AllResults :
        (r.error = None /\ r.test_case.should_trigger) =>
            /\ passed(r) <=> NoExpectedCheckFailed(r)
            /\ \A k \in 1..Len(r.grader_results) :
                r.grader_results[k].name \notin r.test_case.expected_checks =>
                    passed(Flip(r, k)) = passed(r)

\* A positive case with expected checks passed although a check outside
\* expected_checks failed; a check outside the set passed as well.
C1_Witness ==
    \E r \in Range(results) :
        /\ r.error = None /\ r.test_case.should_trigger /\ r.test_case.expected_checks # {}
        /\ passed(r)
        /\ \E k \in 1..Len(r.grader_results) :
            r.grader_results[k].name \in r.test_case.expected_checks
        /\ \E k, m \in 1..Len(r.grader_results) :
            /\ r.grader_results[k].name \notin r.test_case.expected_checks
            /\ r.grader_results[m].name \notin r.test_case.expected_checks
            /\ ~r.grader_results[k].passed /\ r.grader_results[m].passed

\* C2: a positive test case with expected_checks = {sdk_installed,
\* provider_wrapped} passes only if each of the two names occurs in
\* grader_results with passed = true.
C2_PassedNeedsBothChecks ==
    \A r \in AllResults :
        ( /\ r.test_case.should_trigger
          /\ r.test_case.expected_checks = { "sdk_installed", "provider_wrapped" }
          /\ passed(r) ) =>
            \A n \in r.test_case.expected_checks :
                \E k \in 1..Len(r.grader_results) :
                    r.grader_results[k].name = n /\ r.grader_results[k].passed

C4_ErrorNeverPasses ==
    \A r \in AllResults : r.error # None => ~passed(r)

\* C5: an exception of a test case (unknown scaffold, unknown agent type,
\* or any other) becomes an EvalResult with error set and no grader
\* results; the run goes on: it is never stuck before its end, and at its
\* end it has one result per test case, in order, and a report.
C5_ExceptionsStayInCase ==
    /\ \A r \in AllResults : r.error # None => r.grader_results = << >>
    /\ \A k \in 1..Len(results) :
        ( \/ test_cases[k].scaffold \notin DOMAIN Scaffolds
          \/ args.mode = "agent" /\ args.agent_type # "claude-code" ) =>
            results[k].error # None /\ results[k].grader_results = << >>
    /\ pc # "done" => ENABLED Next
    /\ pc = "done" =>
        /\ report # None
        /\ Len(results) = Len(test_cases)
        /\ \A k \in 1..Len(results) : results[k].test_case = test_cases[k]

\* The run ended with a report; its first case failed with an exception
\* and its second case was graded.
C5_Witness ==
    /\ pc = "done" /\ report # None /\ Len(results) = 2
    /\ results[1].error # None
    /\ results[2].error = None /\ results[2].grader_results # << >>

\* The score _parse_response is said to fall back to.
FallbackScore(r) ==
    /\ r.security_practices.score = 3 /\ r.user_consent.score = 3
    /\ r.framework_alignment.score = 3 /\ r.instruction_following.score = 3
    /\ r.weighted_score = 300
    /\ r.overall_notes = "Failed to parse LLM response: {e}"

\* C6: for a response text without a JSON object, and for one whose JSON
\* span does not parse, _parse_response returns the fallback score (all
\* dimensions 3, weighted_score 3.0) and does not raise.
C6_ParseNeverRaises ==
    ( /\ judge_service # None
      /\ ~judge_service[1].raised
      /\ ~(judge_service[1].value.has_json /\ judge_service[1].value.parses) ) =>
        /\ ~_parse_response(judge_service[1].value).raised
        /\ rubric_score # None
        /\ FallbackScore(rubric_score[1])

\* C7: an exception raised by the judge does not fail the test case: its
\* EvalResult has no error and keeps grader results and agent output.
C7_JudgeExceptionKeepsCase ==
    ( /\ judge_service # None
      /\ LLMJudge_score(judge_service[1]).raised
      /\ result # None ) =>
        /\ result[1].error = None
        /\ result[1].grader_results # << >>
        /\ result[1].agent_output # None
        /\ result[1].rubric_score = None

\* The raw outputs of the two agent failures.
AgentFailed(r) ==
    /\ r.agent_output # None
    /\ r.agent_output[1].raw_output \in
        { << "Timeout after {timeout}s" >>,
          << "Error: 'claude' command not found. Install Claude Code CLI." >> }

\* C8: a test case whose agent run timed out, or whose agent executable was
\* not found, has passed = false.
C8_AgentFailureFailsCase ==
    \A r \in AllResults : AgentFailed(r) => ~passed(r)

\* C9 as stated: every test case of a run in agent mode that has a result
\* started exactly one agent process.
C9_OncePerCase ==
    args.mode = "agent" => \A k \in 1..Len(results) : agent_calls[k] = 1

\* C9, amended: on timeout and on executable-not-found the runner returns
\* an AgentOutput with exit code -1, the text of the condition and no files
\* and commands, and the case goes on to grading; no test case starts more
\* than one agent process, and every case that got to the agent stage
\* (agent mode, scaffold copied, claude-code runner) started exactly one.
C9_AgentFailureReturnedOnce ==
    /\ (proc # None /\ proc[1].kind \in { "TimeoutExpired", "FileNotFoundError" }) =>
        /\ agent_output # None
        /\ agent_output[1].exit_code = -1
        /\ agent_output[1].raw_output =
            IF proc[1].kind = "TimeoutExpired" THEN << "Timeout after {timeout}s" >>
            ELSE << "Error: 'claude' command not found. Install Claude Code CLI." >>
        /\ agent_output[1].files_created = {}
        /\ agent_output[1].files_modified = << >>
        /\ agent_output[1].commands_executed = << >>
        /\ pc \in { "grade", "judge", "persist", "return" }
    /\ \A k \in 1..Len(agent_calls) : agent_calls[k] <= 1
    /\ \A k \in 1..Len(results) :
        /\ results[k].agent_output # None => agent_calls[k] = 1
        /\ ( /\ args.mode = "agent" /\ args.agent_type = "claude-code"
             /\ test_cases[k].scaffold \in DOMAIN Scaffolds ) => agent_calls[k] = 1

\* The run ended; the agent of its first case timed out, the agent of its
\* second case was not found, and each case started one agent process.
C9_Witness ==
    /\ pc = "done" /\ Len(results) = 2
    /\ results[1].agent_output # None /\ results[1].agent_output[1].exit_code = -1
    /\ results[1].agent_output[1].raw_output = << "Timeout after {timeout}s" >>
    /\ results[2].agent_output # None /\ results[2].agent_output[1].exit_code = -1
    /\ results[2].agent_output[1].raw_output # << "Timeout after {timeout}s" >>
    /\ agent_calls = << 1, 1 >>

\* C10: at most one temporary directory exists at a time; every test case
\* that was started got one directory of its own, no two cases share one,
\* the directory is new and empty when the scaffold is copied into it, and
\* once evaluate_test_case has returned none exists.
C10_TempDirPerCase ==
    /\ Cardinality(tmp_dirs) <= 1
    /\ tmp_dirs = Range(temp_dir)
    /\ \A k \in 1..Len(case_dirs) :
        /\ Cardinality(case_dirs[k]) <= 1
        /\ (k < i \/ pc # "mktemp") => Cardinality(case_dirs[k]) = 1
        /\ \A m \in 1..Len(case_dirs) : m # k => case_dirs[k] \cap case_dirs[m] = {}
    /\ pc = "copy" => project = None
    /\ pc \in { "append", "loop", "report", "save", "done" } => tmp_dirs = {}

\* The run ended without a temporary directory left, after a case that
\* failed with an exception, and a case whose agent timed out.
C10_Witness ==
    /\ pc = "done" /\ Len(results) = 2 /\ dirs_made = 2 /\ tmp_dirs = {}
    /\ results[1].error # None
    /\ results[2].error = None /\ AgentFailed(results[2])

\* The names of the checks of the auth0-quickstart catalogue, in order.
QuickstartCatalogue ==
    << "framework_detected", "cli_installed", "cli_logged_in", "app_created",
       "metadata_present", "app_type_correct", "callbacks_configured", "credentials_captured" >>

\* C11: in agent mode with skill auth0-quickstart the trace built from the
\* AgentOutput holds the extracted commands, the raw output as its only
\* output and no env vars, and grading it does not raise: it returns one
\* result per catalogue check.
C11_TraceGradingNeverRaises ==
    ( /\ pc = "grade" /\ args.mode = "agent" /\ args.skill = "auth0-quickstart" ) =>
        LET trace == TraceOf(agent_output[1])
            graded == run_graders(args.skill, project[1], Some(trace))
        IN  /\ [k \in 1..Len(trace.commands) |-> trace.commands[k].text]
                    = agent_output[1].commands_executed
            /\ trace.outputs = << agent_output[1].raw_output >>
            /\ trace.env_vars_set = {}
            /\ ~graded.raised
            /\ [k \in 1..Len(graded.value) |-> graded.value[k].name] = QuickstartCatalogue

\* C12: no test case evaluated for a skill without a grader is reported as
\* passed.
C12_UnknownSkillNeverPasses ==
    args.skill \notin { "auth0-react", "auth0-quickstart" } =>
        \A r \in AllResults : ~passed(r)

\* What has to be true when a stage of a test case starts or ends: each
\* stage is recognised by the variable it writes.
StageStep ==
    /\ (project = None /\ project' # None) =>        \* provision
        /\ temp_dir # None /\ agent_output = None /\ grader_results = << >>
        /\ rubric_score = None /\ result = None
        /\ Len(results) = i - 1
    /\ agent_calls' \notin { agent_calls, Append(agent_calls, 0) } =>   \* agent invocation
        /\ args.mode = "agent" /\ project # None /\ agent_output = None
        /\ grader_results = << >> /\ rubric_score = None
    /\ (grader_results = << >> /\ grader_results' # << >>) =>   \* grading
        /\ project # None /\ rubric_score = None /\ judge_service = None
        /\ (args.mode = "agent") <=> (agent_output # None)
        /\ test_case.id \notin debug_files
    /\ (judge_service = None /\ judge_service' # None) =>   \* judge scoring
        /\ grader_results # << >> /\ agent_output # None /\ result = None
        /\ test_case.id \notin debug_files
    /\ debug_files' # debug_files =>                  \* debug persist
        /\ debug_files' = debug_files \cup { test_case.id }
        /\ grader_results # << >>
        /\ (args.mode = "agent" /\ llm_judge) => rubric_score # None
    /\ results' # results =>                          \* the result is appended
        /\ result # None /\ results' = Append(results, result[1])
        /\ result[1].test_case = test_cases[i] /\ Len(results') = i
        /\ project = None /\ temp_dir = None
    /\ i' # i => (i' = i + 1 /\ Len(results) = i /\ result = None /\ project = None)

\* C13: within a test case the stages run in the order provision, agent
\* invocation (agent mode), grading, judge scoring, debug persist, each
\* after the one before has finished; a test case is started only after
\* the result of the one before is appended; and the report lists one
\* result per selected test case, in dataset order.
C13_StagesInOrder ==
    /\ [][StageStep]_vars
    /\ [](report # None =>
            /\ Len(report[1].results) = Len(test_cases)
            /\ \A k \in 1..Len(test_cases) : report[1].results[k].test_case = test_cases[k])

\* A run in agent mode with judge and debug output ended: both of its test
\* cases went through every stage.
C13_Witness ==
    /\ pc = "done" /\ args.mode = "agent" /\ Len(test_cases) = 2
    /\ debug_files = { 1, 2 }
    /\ \A k \in 1..2 :
        /\ report[1].results[k].agent_output # None
        /\ report[1].results[k].grader_results # << >>
        /\ report[1].results[k].rubric_score # None

\* C14: in dry-run and baseline mode no agent process is started and the
\* judge service is never called, even when a judge was constructed; every
\* EvalResult has no agent_output and no rubric_score; the project that is
\* graded is the scaffold as copied, and the grader results are those of
\* the unmodified scaffold and the empty trace.
C14_NoAgentNoJudgeOutsideAgentMode ==
    args.mode # "agent" =>
        /\ pc \notin { "agent", "judge" }
        /\ proc = None /\ judge_service = None
        /\ agent_output = None /\ rubric_score = None
        /\ \A k \in 1..Len(agent_calls) : agent_calls[k] = 0
        /\ project # None => project[1] = Scaffolds[test_case.scaffold]
        /\ \A r \in AllResults :
            /\ r.agent_output = None /\ r.rubric_score = None
            /\ r.error = None =>
                r.grader_results =
                    run_graders(args.skill, Scaffolds[r.test_case.scaffold], Some(EmptyTrace)).value

\* A dry run with rubric scoring requested and a judge constructed ended
\* with a graded test case for the trace-graded skill.
C14_Witness ==
    /\ pc = "done" /\ args.mode = "dry-run" /\ args.with_rubric /\ llm_judge
    /\ args.skill = "auth0-quickstart"
    /\ \E k \in 1..Len(results) : results[k].error = None /\ Len(results[k].grader_results) = 8

\* The texts of the exceptions of a test case that do not come from the
\* judge.
NonJudgeErrors ==
    { "Scaffold not found: {scaffold_name}", "Unknown agent type: {agent_type}",
      AttributeError, "[Errno 28] No space left on device" }

\* C15: whether there is a judge is decided in the setup of the run and
\* does not change afterwards; there is one only if rubric scoring was
\* requested and the client library is available; without one the judge
\* service is never called, no result has a rubric_score and no result has
\* an error that comes from the judge; a result has a rubric_score only in
\* agent mode with a judge.
C15_JudgeDecidedOncePerRun ==
    /\ [][pc # "setup" => llm_judge' = llm_judge]_vars
    /\ [](llm_judge => (args.with_rubric /\ ANTHROPIC_AVAILABLE /\ pc # "setup"))
    /\ [](~llm_judge =>
            /\ pc # "judge" /\ judge_service = None /\ rubric_score = None
            /\ \A r \in AllResults :
                /\ r.rubric_score = None
                /\ r.error # None => r.error[1] \in NonJudgeErrors)
    /\ [](\A r \in AllResults :
            r.rubric_score # None => (args.mode = "agent" /\ args.with_rubric /\ llm_judge))

\* A run in agent mode with rubric scoring requested and the client
\* library available, whose judge could not be initialised, ended: both
\* test cases were graded without error and without rubric score.
C15_Witness ==
    /\ pc = "done" /\ args.mode = "agent" /\ args.with_rubric /\ ANTHROPIC_AVAILABLE
    /\ ~llm_judge /\ Len(results) = 2
    /\ \A k \in 1..2 :
        /\ results[k].error = None /\ results[k].agent_output # None
        /\ results[k].rubric_score = None

RECURSIVE CountPassed(_)
CountPassed(grs) ==
    IF grs = << >> THEN 0
    ELSE (IF Head(grs).passed THEN 1 ELSE 0) + CountPassed(Tail(grs))

\* C17: the score of every result evaluate_test_case returns is the number
\* of passed checks over the number of checks, all checks counted; it is 0
\* for an empty list; and it is the same whatever error, should_trigger
\* and expected_checks are.
C17_ScoreIsPassedOverTotal ==
    \A r \in Range(result) :
        /\ score(r)[2] > 0
        /\ r.grader_results = << >> => score(r)[1] = 0
        /\ r.grader_results # << >> =>
            score(r)[1] * Len(r.grader_results) = CountPassed(r.grader_results) * score(r)[2]
        /\ \A e \in { None, Some(""), Some("boom") }, st \in BOOLEAN,
              ec \in { {}, { "sdk_installed" }, { r.grader_results[k].name : k \in 1..Len(r.grader_results) } } :
                score([r EXCEPT !.error = e, !.test_case.should_trigger = st,
                                !.test_case.expected_checks = ec]) = score(r)

\* The results of a run hold one without checks (score 0) and one whose
\* expected checks all passed while other checks failed (score strictly
\* between 0 and 1).
C17_Witness ==
    /\ \E r \in Range(results) : r.grader_results = << >> /\ score(r) = << 0, 1 >>
    /\ \E r \in Range(results) :
        /\ r.test_case.expected_checks # {}
        /\ \A k \in 1..Len(r.grader_results) :
            r.grader_results[k].name \in r.test_case.expected_checks => r.grader_results[k].passed
        /\ 0 < score(r)[1] /\ score(r)[1] < score(r)[2]

\* The sum of the scores of a list of results, in eighths: every score of
\* the two graders has a denominator that divides eight.
RECURSIVE SumEighths(_)
SumEighths(rs) ==
    IF rs = << >> THEN 0
    ELSE (score(Head(rs))[1] * 8) \div score(Head(rs))[2] + SumEighths(Tail(rs))

\* C18: pass_rate of the report is the fraction of its results that passed
\* and avg_score the mean of their scores, both 0 for an empty list; in
\* the serialized report passed + failed = total_tests = the number of
\* results, and pass_rate = passed / total_tests.
C18_ReportFigures ==
    report # None =>
        LET n == Len(results)
            P == Cardinality({ k \in 1..n : passed(results[k]) })
            pr == pass_rate(report[1])
            av == avg_score(report[1])
            d == EvalReport_to_dict(report[1])
        IN  /\ pr[2] > 0 /\ av[2] > 0
            /\ \A k \in 1..n : 8 % score(results[k])[2] = 0
            /\ n = 0 => (pr[1] = 0 /\ av[1] = 0)
            /\ n > 0 => (pr[1] * n = P * pr[2] /\ av[1] * 8 * n = SumEighths(results) * av[2])
            /\ d.total_tests = n /\ d.passed + d.failed = n /\ d.passed = P
            /\ FracEq(d.pass_rate, pr) /\ FracEq(d.avg_score, av)
            /\ n > 0 => d.pass_rate[1] * n = d.passed * d.pass_rate[2]

\* A report of two results: one passed, the other has an error and did
\* not; the average score is neither 0 nor 1.
C18_Witness ==
    /\ report # None /\ Len(report[1].results) = 2
    /\ passed(report[1].results[1]) /\ ~passed(report[1].results[2])
    /\ report[1].results[2].error # None
    /\ FracEq(pass_rate(report[1]), << 1, 2 >>)
    /\ 0 < avg_score(report[1])[1] /\ avg_score(report[1])[1] < avg_score(report[1])[2]

\* C19: the weighted_score of a parsed judge response is, in hundredths,
\* 30 * security_practices + 25 * user_consent + 25 * framework_alignment
\* + 20 * instruction_following of the parsed scores; a weighted_score in
\* the response is not used; and the four weights sum to 1.0.
C19_WeightedScoreRecomputed ==
    /\ weights.security_practices + weights.user_consent
        + weights.framework_alignment + weights.instruction_following = 100
    /\ ( /\ judge_service # None /\ ~judge_service[1].raised
          /\ judge_service[1].value.has_json /\ judge_service[1].value.parses ) =>
            LET data == judge_service[1].value.data
                parsed == _parse_response(judge_service[1].value)
            IN  /\ ~parsed.raised
                /\ parsed.value.weighted_score =
                        30 * data.security_practices.score + 25 * data.user_consent.score
                        + 25 * data.framework_alignment.score + 20 * data.instruction_following.score
                /\ rubric_score = Some(parsed.value)
                /\ result # None => result[1].rubric_score = rubric_score

\* A test case got the rubric score 3.90 from a response that carried a
\* weighted_score of 5.00.
C19_Witness ==
    /\ result # None /\ result[1].rubric_score # None
    /\ result[1].rubric_score[1].weighted_score = 390
    /\ judge_service # None /\ ~judge_service[1].raised
    /\ judge_service[1].value.parses
    /\ judge_service[1].value.data.weighted_score = 500

\* What a persisted report says about a test-case id: the entry of the id,
\* or not passed and score 0 when the report has no entry for it.
SideOf(report_, t) ==
    IF \E k \in 1..Len(report_.results) : report_.results[k].test_case_id = t
    THEN LET k == CHOOSE k \in 1..Len(report_.results) : report_.results[k].test_case_id = t
         IN  [passed |-> report_.results[k].passed, score |-> report_.results[k].score]
    ELSE [passed |-> FALSE, score |-> << 0, 1 >>]

\* C20: compare_reports looks at every test-case id of either report, with
\* not passed and score 0 for the report that lacks the id; an id has one
\* change entry if its verdicts differ or its scores differ by more than
\* 0.1, and none otherwise; the entry says "improved" exactly when A did
\* not pass and B passed, "regressed" exactly when A passed and B did not,
\* and "score_change" exactly when the verdict is the same.
C20_CompareChanges ==
    comparison # None =>
        LET changes == comparison[1].changes
            ids == { report_a[1].results[k].test_case_id : k \in 1..Len(report_a[1].results) }
                   \cup { report_b[1].results[k].test_case_id : k \in 1..Len(report_b[1].results) }
            a(t) == SideOf(report_a[1], t)
            b(t) == SideOf(report_b[1], t)
            gap(t) == a(t).score[1] * b(t).score[2] - b(t).score[1] * a(t).score[2]
            differs(t) ==
                \/ a(t).passed # b(t).passed
                \/ 10 * gap(t) > a(t).score[2] * b(t).score[2]
                \/ 10 * (0 - gap(t)) > a(t).score[2] * b(t).score[2]
        IN  /\ \A k \in 1..Len(changes) : changes[k].test_case_id \in ids
            /\ \A t \in ids :
                Cardinality({ k \in 1..Len(changes) : changes[k].test_case_id = t })
                    = IF differs(t) THEN 1 ELSE 0
            /\ \A k \in 1..Len(changes) :
                LET e == changes[k]
                    t == e.test_case_id
                IN  /\ e.was_passing = a(t).passed /\ e.now_passing = b(t).passed
                    /\ e.change \in { "improved", "regressed", "score_change" }
                    /\ e.change = "improved" <=> (~a(t).passed /\ b(t).passed)
                    /\ e.change = "regressed" <=> (a(t).passed /\ ~b(t).passed)
                    /\ e.change = "score_change" <=> (a(t).passed = b(t).passed)

\* Test case t1 failed in report A and passed in report B and has the
\* entry "improved"; t2 passed in A with score 1, is missing from B, and
\* has the entry "regressed".
C20_Witness ==
    /\ comparison # None
    /\ Len(report_a[1].results) = 2 /\ Len(report_b[1].results) = 1
    /\ ~report_a[1].results[1].passed /\ report_b[1].results[1].passed
    /\ report_b[1].results[1].test_case_id = "t1"
    /\ report_a[1].results[2].passed /\ report_a[1].results[2].score = << 1, 1 >>
    /\ Len(comparison[1].changes) = 2
    /\ \E k \in 1..2 :
        /\ comparison[1].changes[k].test_case_id = "t1"
        /\ comparison[1].changes[k].change = "improved"
    /\ \E k \in 1..2 :
        /\ comparison[1].changes[k].test_case_id = "t2"
        /\ comparison[1].changes[k].change = "regressed"

\* The (skill, mode) pair of a score file, as merge_scores reads it.
PairOf(file) == << Get(file, "skill", << "unknown" >>), Get(file, "mode", << "unknown" >>) >>

\* C21: after merge_scores, every (skill, mode) pair of the input files has
\* exactly one leaderboard entry, with the pass_rate, avg_score, total_tests
\* and timestamp of the first file that has the pair, and every entry is
\* the entry of a pair of the input.
C21_OneEntryPerPair ==
    leaderboard # None =>
        LET lb == leaderboard[1]
        IN  /\ \A n \in 1..Len(score_files) :
                LET pair == PairOf(score_files[n])
                    with_pair == { m \in 1..Len(score_files) : PairOf(score_files[m]) = pair }
                    first == CHOOSE m \in with_pair : \A x \in with_pair : m <= x
                    entries == { k \in 1..Len(lb) : << lb[k].skill, lb[k].mode >> = pair }
                IN  /\ Cardinality(entries) = 1
                    /\ \A k \in entries : lb[k] = EntryOf(score_files[first])
            /\ \A k \in 1..Len(lb) :
                \E n \in 1..Len(score_files) : PairOf(score_files[n]) = << lb[k].skill, lb[k].mode >>

\* The place in the input of the first file with the key of a leaderboard
\* entry.
FirstSeen(entry) ==
    LET with_key == { n \in 1..Len(score_files) :
                        KeyOf(score_files[n]) = entry.skill \o << "-" >> \o entry.mode }
    IN  CHOOSE n \in with_key : \A x \in with_key : n <= x

\* C22: the leaderboard that merge_scores returns is the one it wrote; no
\* entry has a smaller avg_score than the entry after it, and of two entries
\* with equal avg_score the one seen first in the input comes first.
C22_LeaderboardDescending ==
    leaderboard # None =>
        LET lb == leaderboard[1]
        IN  /\ leaderboard_file = Some([leaderboard |-> lb])
            /\ \A k \in 1..(Len(lb) - 1) : ~FracLess(lb[k].avg_score, lb[k + 1].avg_score)
            /\ \A k, m \in 1..Len(lb) :
                (k < m /\ FracEq(lb[k].avg_score, lb[m].avg_score)) =>
                    FirstSeen(lb[k]) < FirstSeen(lb[m])

\* A leaderboard of two entries with the same avg_score written in two ways
\* (1/2 and 4/8), made from files of which the second has the higher
\* pass_rate.
C22_Witness ==
    /\ pc = "done" /\ leaderboard # None /\ Len(leaderboard[1]) = 2
    /\ leaderboard[1][1].avg_score = << 1, 2 >>
    /\ leaderboard[1][2].avg_score = << 4, 8 >>
    /\ leaderboard[1][1].timestamp < leaderboard[1][2].timestamp

NeitherFlagMessage ==
    check_callbacks_configured(
        ExecutionTrace(<< DictCommand(<< "auth0", " ", "apps", " ", "create" >>) >>,
                       << >>, << >>, {}, << >>)).value.message

\* C24: when the creation command that callbacks_configured looks at carries
\* exactly one of --callbacks and --logout-urls, the check fails and its
\* message is not the message of the case where the command carries neither.
C24_PartialFlagsOwnMessage ==
    \A k \in 1..Len(gradings) :
        (evidence[1].skill = "auth0-quickstart" /\ ~gradings[k].raised) =>
            LET commands == evidence[1].trace[1].commands
                first == LoopEnd(commands, IsCreateLiteral)
                has_callbacks == HasWord(commands[first].text, "--callbacks")
                has_logout == HasWord(commands[first].text, "--logout-urls")
            IN  (first > 0 /\ has_callbacks # has_logout) =>
                    /\ ~gradings[k].value[7].passed
                    /\ gradings[k].value[7].message # NeitherFlagMessage

\* C25: app_type_correct reads --type from creation commands only.  It
\* reports a wrong type only when the trace has a creation command whose
\* --type value is outside the expected set (and names that value), it
\* passes only when a creation command has an expected --type value, and on
\* a trace without any creation command it fails with the message that the
\* type is not specified, whatever --type flags other commands carry.
C25_TypeReadFromCreateOnly ==
    \A k \in 1..Len(gradings) :
        (evidence[1].skill = "auth0-quickstart" /\ ~gradings[k].raised) =>
            LET commands == evidence[1].trace[1].commands
                res == gradings[k].value[6]
                typed == { n \in 1..Len(commands) :
                             IsCreateLiteral(commands[n].text) /\ TypeMatch(commands[n].text) # None }
            IN  /\ res.name = "app_type_correct"
                /\ res.message = "Wrong application type: {actual_type} (expected {expected_type})" =>
                    \E n \in typed :
                        /\ TypeMatch(commands[n].text)[1] \notin expected_values
                        /\ res.details = << "spa", TypeMatch(commands[n].text)[1] >>
                /\ res.passed =>
                    \E n \in typed : TypeMatch(commands[n].text)[1] \in expected_values
                /\ (\A n \in 1..Len(commands) : ~IsCreateRe(commands[n].text)) =>
                    /\ ~res.passed
                    /\ res.message = "Application type not specified in create command"

\* A graded trace without a creation command in which another command
\* carries --type native.
C25_Witness ==
    /\ gradings # << >> /\ evidence[1].skill = "auth0-quickstart" /\ ~gradings[1].raised
    /\ \A n \in 1..Len(evidence[1].trace[1].commands) :
        ~IsCreateRe(evidence[1].trace[1].commands[n].text)
    /\ \E n \in 1..Len(evidence[1].trace[1].commands) :
        TypeMatch(evidence[1].trace[1].commands[n].text) = Some("native")
    /\ gradings[1].value[6].message = "Application type not specified in create command"

\* The message redirect_uri_configured gives for a project in which no
\* entry file mentions redirect_uri.
NotConfiguredMessage ==
    check_redirect_uri_configured(Project(None, [ f \in { "src/main.tsx" } |-> {} ])).message

\* C26: when the entry file of the project (the first of the candidate
\* entry files that exists) sets redirect_uri to a hard-coded URL literal,
\* redirect_uri_configured fails and its message is not the message of a
\* project without any redirect_uri configuration, whatever else the file
\* contains.
C26_HardcodedRedirectFails ==
    \A k \in 1..Len(gradings) :
        evidence[1].skill = "auth0-react" =>
            LET tree == evidence[1].project
                entry == FirstSuch(entry_files, LAMBDA f : Exists(tree, f))
                res == gradings[k].value[5]
            IN  (entry # None /\ "redirect_uri: 'http" \in tree.files[entry[1]]) =>
                    /\ res.name = "redirect_uri_configured"
                    /\ ~res.passed
                    /\ res.message # NotConfiguredMessage

\* The text of the exception a failed write of a debug file raises.
SaveError == "[Errno 28] No space left on device"

\* C27: a test case whose debug save raised is returned with the error set,
\* no grader results, no agent output and no rubric score, although it had
\* been graded (and its agent had run, in agent mode); this happens with a
\* debug writer only.  A test case that failed with any other exception,
\* that is before the debug save, has no debug file.
C27_FailedSaveDiscardsOutcome ==
    /\ \A r \in AllResults :
        r.error = Some(SaveError) =>
            /\ debug_writer
            /\ r.grader_results = << >> /\ r.agent_output = None /\ r.rubric_score = None
            /\ r.test_case.scaffold \in DOMAIN Scaffolds
    /\ \A k \in 1..Len(results) :
        results[k].error = Some(SaveError) =>
            (args.mode = "agent" <=> agent_calls[k] = 1)
    /\ \A r \in AllResults :
        (r.error # None /\ r.error # Some(SaveError)) => r.test_case.id \notin debug_files

\* A run in agent mode with debug output: the first test case was graded
\* after its agent ran and its debug save raised; the second failed when
\* its scaffold was copied and has no debug file.
C27_Witness ==
    /\ pc = "done" /\ debug_writer /\ args.mode = "agent" /\ Len(results) = 2
    /\ results[1].error = Some(SaveError) /\ agent_calls[1] = 1
    /\ results[1].grader_results = << >>
    /\ results[2].error = Some("Scaffold not found: {scaffold_name}")
    /\ 2 \notin debug_files

\* C28: the leaderboard has as many entries as the input files have
\* distinct (skill, mode) pairs.
C28_EntriesCountPairs ==
    leaderboard # None =>
        Len(leaderboard[1]) =
            Cardinality({ PairOf(score_files[n]) : n \in 1..Len(score_files) })

\* What a check decided: it raised, passed or failed.
Verdict(outcome) ==
    IF outcome.raised THEN "raised" ELSE IF outcome.value.passed THEN "pass" ELSE "fail"

\* The trace with its commands in the order p.
Permuted(tr, p) == [tr EXCEPT !.commands = [n \in 1..Len(tr.commands) |-> tr.commands[p[n]]]]

\* The trace with only the first command that contains "auth0 apps create",
\* or without commands when there is none.
FirstCreateAlone(tr) ==
    LET first == LoopEnd(tr.commands, IsCreateLiteral)
    IN  [tr EXCEPT !.commands = IF first > 0 THEN << tr.commands[first] >> ELSE << >>]

\* C29: for a trace that was just graded, framework_detected,
\* cli_installed, cli_logged_in, app_created and credentials_captured decide
\* the same on every permutation of its commands; metadata_present and
\* callbacks_configured give the result they give on the first command that
\* contains "auth0 apps create" alone (no command at all when there is
\* none).
C29_OrderOfCommands ==
    (Len(gradings) = 1 /\ evidence[1].skill = "auth0-quickstart") =>
        LET tr == evidence[1].trace[1]
            framework_detected == Verdict(check_framework_detected(tr))
            cli_installed == Verdict(check_cli_installed(tr))
            cli_logged_in == Verdict(check_cli_logged_in(tr))
            app_created == Verdict(check_app_created(tr))
            credentials_captured == Verdict(check_credentials_captured(tr))
        IN  /\ gradings[1] = QuickstartRunAll(tr)
            /\ \A p \in Orders(1..Len(tr.commands)) :
                /\ Verdict(check_framework_detected(Permuted(tr, p))) = framework_detected
                /\ Verdict(check_cli_installed(Permuted(tr, p))) = cli_installed
                /\ Verdict(check_cli_logged_in(Permuted(tr, p))) = cli_logged_in
                /\ Verdict(check_app_created(Permuted(tr, p))) = app_created
                /\ Verdict(check_credentials_captured(Permuted(tr, p))) = credentials_captured
            /\ ~gradings[1].raised =>
                /\ gradings[1].value[5] = check_metadata_present(FirstCreateAlone(tr)).value
                /\ gradings[1].value[7] = check_callbacks_configured(FirstCreateAlone(tr)).value

\* A graded trace of two creation commands, the first without flags and the
\* second with the metadata and both URL flags: metadata_present and
\* callbacks_configured fail, and would pass on the commands in the other
\* order; a login that comes after the creation passes like one before it.
C29_Witness ==
    /\ gradings # << >> /\ evidence[1].skill = "auth0-quickstart" /\ ~gradings[1].raised
    /\ Len(evidence[1].trace[1].commands) = 2
    /\ ~gradings[1].value[5].passed /\ ~gradings[1].value[7].passed
    /\ gradings[1].value[4].passed
    /\ check_metadata_present(Permuted(evidence[1].trace[1], << 2, 1 >>)).value.passed
    /\ check_callbacks_configured(Permuted(evidence[1].trace[1], << 2, 1 >>)).value.passed

\* C30: on a graded trace, when app_created passes neither metadata_present
\* nor callbacks_configured says that the create command was not found, and
\* when one of the two reports on the flags of a creation command
\* app_created passes.
C30_ChecksAgreeOnCreate ==
    (gradings # << >> /\ evidence[1].skill = "auth0-quickstart" /\ ~gradings[1].raised) =>
        LET app_created == gradings[1].value[4]
            metadata_present == gradings[1].value[5]
            callbacks_configured == gradings[1].value[7]
        IN  /\ app_created.passed =>
                /\ metadata_present.message # "auth0 apps create command not found"
                /\ callbacks_configured.message # "auth0 apps create command not found"
            /\ ( \/ metadata_present.message # "auth0 apps create command not found"
                 \/ callbacks_configured.message # "auth0 apps create command not found" ) =>
                    app_created.passed

====
